---- MODULE Spec2Model ----
(***************************************************************************)
(* Model of the calcifer-infra orchestration core:                         *)
(*   - MatrixEngine.run / _handle_results      (src/core/engine.py)        *)
(*   - TASK_REGISTRY, GROUP_EXECUTION_ORDER    (src/core/registry.py)      *)
(*   - the CLI commands that request goals     (src/main.py)               *)
(*   - write_file / read_file                  (src/tasks/utils/files.py,  *)
(*                                              src/utils/linux.py)        *)
(*   - the registered tasks and their sub-step chains (src/tasks/*.py),    *)
(*     automated_step / automated_substep      (src/core/decorators.py)    *)
(* Three specifications share the module: SpecEngine, SpecFile, SpecTask.  *)
(***************************************************************************)
EXTENDS Integers, Sequences, FiniteSets, TLC

VARIABLES
    \* ---- engine run (SpecEngine) ----
    command,        \* the CLI command that was invoked (main.py)
    goal,           \* goal passed to MatrixEngine.run
    target_filter,  \* target_filter passed to MatrixEngine.run
    pc,             \* position of the run
    gi,             \* index into GROUP_EXECUTION_ORDER (for group_name in ...)
    ti,             \* index into the chain of the current group (for task_func in tasks)
    group_hosts,    \* hosts of the filtered inventory of the current group
    hostState,      \* per host of the current dispatch: "pending", "running", "finished"
    results,        \* agg_result of the current dispatch: host -> outer result
    dispatchLog,    \* history: the dispatches made so far, in order
    started,        \* history: <<dispatch number, host>> invocations that began
    completed,      \* history: <<dispatch number, host>> invocations that returned
    filtered,       \* history: groups for which the inventory was filtered
    exit_code,      \* {} while the command runs, then {c} for process exit code c
    bag,            \* host -> writes of os_facts into that host's data bag
    \* ---- file mutator (SpecFile) ----
    platform,       \* task.host.platform of the target
    impl,           \* which write_file the caller imported
    files,          \* target file system: path -> content, or Absent
    backups,        \* backup directory: <<safe name, timestamp>> -> content
    remoteTmp,      \* remote temporary files left on the target (uuid names)
    localTmp,       \* local staged temporary files left on the control machine
    clock,          \* datetime.now() in whole seconds
    nextUuid,       \* supply of uuid4 values
    last,           \* history: the most recent write_file call
    \* ---- task invocation (SpecTask) ----
    inv             \* the most recent task invocation seen by the engine

engineVars == <<command, goal, target_filter, pc, gi, ti, group_hosts, hostState,
                results, dispatchLog, started, completed, filtered, exit_code, bag>>
fileVars == <<platform, impl, files, backups, remoteTmp, localTmp, clock, nextUuid, last>>
taskVars == <<inv>>
vars == <<engineVars, fileVars, taskVars>>

None == "__none__"

(***************************************************************************)
(* core/models.py                                                          *)
(***************************************************************************)
TaskStatus == {"OK", "CHANGED", "WARNING", "FAILED", "SKIPPED"}

(***************************************************************************)
(* core/registry.py                                                        *)
(***************************************************************************)
GROUP_EXECUTION_ORDER == <<"local_machine", "k8s_control_plane", "k8s_worker">>

TaskRegistryMut ==
    [ INIT |->
        [ local_machine |-> << "check_internet_access", "gather_system_facts",
                               "ensure_azure_cli", "ensure_azure_login" >>,
          k8s_control_plane |-> << "check_internet_access", "gather_system_facts",
                                   "set_hostname_and_hosts", "prepare_k8s_node",
                                   "install_containerd", "install_kubernetes_tools",
                                   "init_control_plane", "setup_fluxcd" >>,
          k8s_worker |-> << "check_internet_access",
                            "set_hostname_and_hosts", "prepare_k8s_node",
                            "install_containerd", "gather_system_facts",
                            "install_kubernetes_tools" >> ],
      ARC |->
        [ local_machine |-> << "check_internet_access", "gather_system_facts",
                               "ensure_azure_cli", "ensure_azure_login",
                               "install_arc_agent" >>,
          k8s_control_plane |-> << >>,
          k8s_worker |-> << >> ] ]

TASK_REGISTRY ==
    [ INIT |->
        [ local_machine |-> << "check_internet_access", "gather_system_facts",
                               "ensure_azure_cli", "ensure_azure_login" >>,
          k8s_control_plane |-> << "check_internet_access", "gather_system_facts",
                                   "set_hostname_and_hosts", "prepare_k8s_node",
                                   "install_containerd", "install_kubernetes_tools",
                                   "init_control_plane", "setup_fluxcd" >>,
          k8s_worker |-> << "check_internet_access", "gather_system_facts",
                            "set_hostname_and_hosts", "prepare_k8s_node",
                            "install_containerd", "install_kubernetes_tools" >> ],
      ARC |->
        [ local_machine |-> << "check_internet_access", "gather_system_facts",
                               "ensure_azure_cli", "ensure_azure_login",
                               "install_arc_agent" >>,
          k8s_control_plane |-> << >>,
          k8s_worker |-> << >> ] ]

(***************************************************************************)
(* main.py: the commands and the goal each one requests.  destroy passes   *)
(* no target.                                                              *)
(***************************************************************************)
Commands == {"verify", "init", "destroy", "connect-arc"}

GoalOf(cmd) ==
    CASE cmd = "verify" -> "CHECK"
      [] cmd = "init" -> "INIT"
      [] cmd = "destroy" -> "DESTROY"
      [] cmd = "connect-arc" -> "ARC"

(***************************************************************************)
(* The inventory (loaded by InitNornir): host name -> group memberships.   *)
(***************************************************************************)
Hosts == {"localhost", "cp1", "cp2", "w1"}

HostGroups(h) ==
    CASE h = "localhost" -> {"local_machine"}
      [] h = "cp1" -> {"k8s_control_plane"}
      [] h = "cp2" -> {"k8s_control_plane"}
      [] h = "w1" -> {"k8s_worker"}

\* Values of --target: absent (None), the empty string, host names, a name of no host.
TargetFilters == {None, "", "localhost", "cp1", "w1", "ghost"}

(***************************************************************************)
(* MatrixEngine.run                                                        *)
(***************************************************************************)
\* engine.py:36  if goal not in TASK_REGISTRY: ... return
GoalUnknownMut(g) == FALSE
GoalUnknown(g) == g \notin DOMAIN TASK_REGISTRY

\* engine.py:46  TASK_REGISTRY[goal].get(group_name, [])
ChainOfMut(g, grp) ==
    IF g \in DOMAIN TASK_REGISTRY /\ grp \in DOMAIN TASK_REGISTRY[g]
    THEN (IF TASK_REGISTRY[g][grp] = << >> THEN <<"check_internet_access">>
          ELSE TASK_REGISTRY[g][grp])
    ELSE << >>

ChainOf(g, grp) ==
    IF g \in DOMAIN TASK_REGISTRY /\ grp \in DOMAIN TASK_REGISTRY[g]
    THEN TASK_REGISTRY[g][grp] ELSE << >>

\* engine.py:52-55  nr.filter(group_name in h.groups), then .filter(name=target_filter)
\* when target_filter is truthy (None and "" are falsy).
FilterHostsMut(grp, f) ==
    IF f \notin {None, ""} THEN {h \in Hosts : h = f}
    ELSE {h \in Hosts : grp \in HostGroups(h)}
FilterHosts(grp, f) ==
    LET members == {h \in Hosts : grp \in HostGroups(h)}
    IN IF f \notin {None, ""} THEN {h \in members : h = f} ELSE members

\* engine.py:81-120  _handle_results: the status read from each host's result,
\* and whether any of them is FAILED.
StatusOfMut(r) ==
    IF r.isStd /\ r.status = "WARNING" THEN "FAILED"
    ELSE IF ~r.isStd THEN (IF r.failed THEN "FAILED" ELSE "OK") ELSE r.status

StatusOf(r) ==
    IF ~r.isStd THEN (IF r.failed THEN "FAILED" ELSE "OK") ELSE r.status

HandleResultsMut(agg) == agg # << >> /\ \A h \in DOMAIN agg : StatusOf(agg[h]) = "FAILED"
HandleResults(agg) == \E h \in DOMAIN agg : StatusOf(agg[h]) = "FAILED"

\* engine.py:71  group_hosts.run(...) returns once every host's invocation returned.
DispatchJoinedMut(hs, st) == \E h \in hs : st[h] = "finished"
DispatchJoined(hs, st) == \A h \in hs : st[h] = "finished"

\* The outer results a registered task hands to the engine (see SpecTask).
EngineResults ==
    {[isStd |-> TRUE, status |-> s, failed |-> (s = "FAILED")] : s \in TaskStatus}

NoResult == [isStd |-> FALSE, status |-> None, failed |-> FALSE]

\* The runner's own result for a host whose task could not be run to a
\* StandardResult (transport failure): failed, payload a string or exception.
TransportFailure == [isStd |-> FALSE, status |-> None, failed |-> TRUE]

HostResults == EngineResults \cup {TransportFailure}

FileIdle ==
    /\ platform = None /\ impl = None /\ files = << >> /\ backups = << >> /\ remoteTmp = {}
    /\ localTmp = {} /\ clock = 0 /\ nextUuid = 0 /\ last = None

NoInv == [done |-> FALSE, task |-> None, host |-> None, plat |-> None,
          calls |-> << >>, subs |-> << >>,
          ret |-> [failed |-> FALSE, status |-> None, message |-> << >>],
          exc |-> {}, escaped |-> FALSE, desired |-> FALSE,
          cmd |-> [called |-> FALSE, raised |-> FALSE, failed |-> FALSE, result |-> ""]]

TaskIdle == inv = NoInv

EngineIdle ==
    /\ command = None /\ goal = None /\ target_filter = None /\ pc = "off"
    /\ gi = 0 /\ ti = 0 /\ group_hosts = {} /\ hostState = << >> /\ results = << >>
    /\ dispatchLog = << >> /\ started = {} /\ completed = {} /\ filtered = {}
    /\ exit_code = {} /\ bag = << >>

InitEngine ==
    /\ command \in Commands
    /\ goal = GoalOf(command)
    /\ target_filter \in (IF command = "destroy" THEN {None} ELSE TargetFilters)
    /\ pc = "run"
    /\ gi = 0 /\ ti = 0
    /\ group_hosts = {}
    /\ hostState = << >>
    /\ results = << >>
    /\ dispatchLog = << >>
    /\ started = {} /\ completed = {} /\ filtered = {}
    /\ exit_code = {}
    /\ bag = [h \in Hosts |-> {}]
    /\ FileIdle /\ TaskIdle

\* engine.py:36-40: the goal check.  An unknown goal prints and returns; the
\* command function then ends normally (main.py:127, 164), exit code 0.
RunStart ==
    /\ pc = "run"
    /\ IF GoalUnknown(goal)
       THEN /\ pc' = "returned"
            /\ exit_code' = {0}
            /\ gi' = gi
       ELSE /\ pc' = "group"
            /\ gi' = 1
            /\ exit_code' = exit_code
    /\ UNCHANGED <<bag, command, goal, target_filter, ti, group_hosts, hostState, results,
                   dispatchLog, started, completed, filtered>>
    /\ UNCHANGED <<fileVars, taskVars>>

\* engine.py:43-58: one iteration head of "for group_name in GROUP_EXECUTION_ORDER";
\* after the last group run returns and the command ends with exit code 0.
NextGroupMut ==
    /\ pc = "group"
    /\ IF gi > 1
       THEN /\ pc' = "done"
            /\ exit_code' = {0}
            /\ UNCHANGED <<gi, ti, group_hosts, filtered>>
       ELSE LET grp == GROUP_EXECUTION_ORDER[gi]
                tasks == ChainOf(goal, grp)
                hs == FilterHosts(grp, target_filter)
            IN IF tasks = << >>
               THEN /\ gi' = gi + 1
                    /\ UNCHANGED <<pc, ti, group_hosts, filtered, exit_code>>
               ELSE /\ filtered' = filtered \cup {grp}
                    /\ IF hs = {}
                       THEN /\ gi' = gi + 1
                            /\ UNCHANGED <<pc, ti, group_hosts, exit_code>>
                       ELSE /\ group_hosts' = hs
                            /\ ti' = 1
                            /\ pc' = "task"
                            /\ UNCHANGED <<gi, exit_code>>
    /\ UNCHANGED <<bag, command, goal, target_filter, hostState, results, dispatchLog,
                   started, completed>>
    /\ UNCHANGED <<fileVars, taskVars>>

NextGroup ==
    /\ pc = "group"
    /\ IF gi > Len(GROUP_EXECUTION_ORDER)
       THEN /\ pc' = "done"
            /\ exit_code' = {0}
            /\ UNCHANGED <<gi, ti, group_hosts, filtered>>
       ELSE LET grp == GROUP_EXECUTION_ORDER[gi]
                tasks == ChainOf(goal, grp)
                hs == FilterHosts(grp, target_filter)
            IN IF tasks = << >>
               THEN /\ gi' = gi + 1
                    /\ UNCHANGED <<pc, ti, group_hosts, filtered, exit_code>>
               ELSE /\ filtered' = filtered \cup {grp}
                    /\ IF hs = {}
                       THEN /\ gi' = gi + 1
                            /\ UNCHANGED <<pc, ti, group_hosts, exit_code>>
                       ELSE /\ group_hosts' = hs
                            /\ ti' = 1
                            /\ pc' = "task"
                            /\ UNCHANGED <<gi, exit_code>>
    /\ UNCHANGED <<bag, command, goal, target_filter, hostState, results, dispatchLog,
                   started, completed>>
    /\ UNCHANGED <<fileVars, taskVars>>

\* engine.py:64-71: the head of "for task_func in tasks" and the call of
\* group_hosts.run, which hands the task to every host of the filtered group.
Dispatch ==
    /\ pc = "task"
    /\ LET tasks == ChainOf(goal, GROUP_EXECUTION_ORDER[gi])
       IN IF ti > Len(tasks)
          THEN /\ pc' = "group"
               /\ gi' = gi + 1
               /\ UNCHANGED <<hostState, results, dispatchLog>>
          ELSE /\ pc' = "dispatched"
               /\ gi' = gi
               /\ hostState' = [h \in group_hosts |-> "pending"]
               /\ results' = [h \in group_hosts |-> NoResult]
               /\ dispatchLog' = Append(dispatchLog,
                      [group |-> GROUP_EXECUTION_ORDER[gi], gi |-> gi, ti |-> ti,
                       task |-> tasks[ti], hosts |-> group_hosts, failed |-> FALSE,
                       overlap |-> {}])
    /\ UNCHANGED <<bag, command, goal, target_filter, ti, group_hosts, started, completed,
                   filtered, exit_code>>
    /\ UNCHANGED <<fileVars, taskVars>>

\* The runner starts the task for host h (hosts of one dispatch run in parallel);
\* the log keeps which invocations of the dispatch were running at the same time.
HostStart(h) ==
    /\ pc = "dispatched"
    /\ h \in DOMAIN hostState
    /\ hostState[h] = "pending"
    /\ hostState' = [hostState EXCEPT ![h] = "running"]
    /\ started' = started \cup {<<Len(dispatchLog), h>>}
    /\ dispatchLog' = [dispatchLog EXCEPT ![Len(dispatchLog)].overlap =
                          @ \cup {{h, x} : x \in {y \in DOMAIN hostState :
                                                    hostState[y] = "running"}}]
    /\ UNCHANGED <<bag, command, goal, target_filter, pc, gi, ti, group_hosts, results,
                   completed, filtered, exit_code>>
    /\ UNCHANGED <<fileVars, taskVars>>

\* The statuses a task's StandardResult can carry: gather_system_facts builds
\* only FAILED and OK ones (facts.py:44-48, 56-63, 76-82; decorators.py).
StatusesOf(t) ==
    IF t = "gather_system_facts" THEN {"OK", "FAILED"} ELSE TaskStatus

\* facts.py:69  task.host["os_facts"] = {...}: executed by the invocation of
\* gather_system_facts for host h exactly on the path that returns OK; i is
\* the number of the dispatch the invocation belongs to.
StoreFactsMut(b, h, i, t, r) ==
    IF t = "gather_system_facts" /\ r.isStd /\ r.status = "OK"
    THEN [x \in DOMAIN b |-> b[x] \cup {[by |-> h, dispatch |-> i]}]
    ELSE b

StoreFacts(b, h, i, t, r) ==
    IF t = "gather_system_facts" /\ r.isStd /\ r.status = "OK"
    THEN [b EXCEPT ![h] = @ \cup {[by |-> h, dispatch |-> i]}]
    ELSE b

\* The task's invocation for host h returns its outer result r.
HostFinish(h, r) ==
    /\ pc = "dispatched"
    /\ h \in DOMAIN hostState
    /\ hostState[h] = "running"
    /\ r.isStd => r.status \in StatusesOf(dispatchLog[Len(dispatchLog)].task)
    /\ bag' = StoreFacts(bag, h, Len(dispatchLog), dispatchLog[Len(dispatchLog)].task, r)
    /\ hostState' = [hostState EXCEPT ![h] = "finished"]
    /\ results' = [results EXCEPT ![h] = r]
    /\ completed' = completed \cup {<<Len(dispatchLog), h>>}
    /\ dispatchLog' = [dispatchLog EXCEPT ![Len(dispatchLog)].failed =
                          @ \/ (r.isStd /\ r.status = "FAILED") \/ (~r.isStd /\ r.failed)]
    /\ UNCHANGED <<command, goal, target_filter, pc, gi, ti, group_hosts, started,
                   filtered, exit_code>>
    /\ UNCHANGED <<fileVars, taskVars>>

\* engine.py:71-79: group_hosts.run returned; _handle_results decides; a
\* critical failure ends the process with sys.exit(1).
EvaluateMut ==
    /\ pc = "dispatched"
    /\ \/ DispatchJoined(group_hosts, hostState)
       \/ \E h \in group_hosts : hostState[h] = "finished" /\ StatusOf(results[h]) = "FAILED"
    /\ IF HandleResults(results)
       THEN /\ pc' = "halted"
            /\ exit_code' = {1}
            /\ ti' = ti
       ELSE /\ pc' = "task"
            /\ ti' = ti + 1
            /\ exit_code' = exit_code
    /\ UNCHANGED <<bag, command, goal, target_filter, gi, group_hosts, hostState, results,
                   dispatchLog, started, completed, filtered>>
    /\ UNCHANGED <<fileVars, taskVars>>

Evaluate ==
    /\ pc = "dispatched"
    /\ DispatchJoined(group_hosts, hostState)
    /\ IF HandleResults(results)
       THEN /\ pc' = "halted"
            /\ exit_code' = {1}
            /\ ti' = ti
       ELSE /\ pc' = "task"
            /\ ti' = ti + 1
            /\ exit_code' = exit_code
    /\ UNCHANGED <<bag, command, goal, target_filter, gi, group_hosts, hostState, results,
                   dispatchLog, started, completed, filtered>>
    /\ UNCHANGED <<fileVars, taskVars>>

NextEngine ==
    \/ RunStart
    \/ NextGroup
    \/ Dispatch
    \/ \E h \in Hosts : HostStart(h)
    \/ \E h \in Hosts, r \in HostResults : HostFinish(h, r)
    \/ Evaluate

SpecEngine == InitEngine /\ [][NextEngine]_vars

\* The interpreter keeps executing run (engine.py:36-79), and every per-host
\* invocation the runner was handed is started and returns.
FairEngine ==
    /\ WF_vars(RunStart) /\ WF_vars(NextGroup) /\ WF_vars(Dispatch) /\ WF_vars(Evaluate)
    /\ WF_vars(\E h \in Hosts : HostStart(h))
    /\ WF_vars(\E h \in Hosts, r \in HostResults : HostFinish(h, r))

SpecEngineLive == SpecEngine /\ FairEngine

(***************************************************************************)
(* Remote file mutator: read_file / write_file                             *)
(* (src/tasks/utils/files.py and src/utils/linux.py)                       *)
(***************************************************************************)
Absent == "__absent__"

\* Paths are strings, kept as sequences of characters: "/e/h" and "/e_h".
PathSlash == <<"/", "e", "/", "h">>
PathUnderscore == <<"/", "e", "_", "h">>
Paths == {PathSlash, PathUnderscore}

Contents == {"", "A", "B"}

Platforms == {"linux_local", "linux"}
Impls == {"tasks.utils.files", "utils.linux"}

MaxCalls == 2
MaxClock == 1

\* hashlib.md5(...).hexdigest(): equal digests exactly for equal contents.
Md5(c) == <<"md5", c>>

\* path.replace("/", "_")
SafeFilename(p) == [i \in DOMAIN p |-> IF p[i] = "/" THEN "_" ELSE p[i]]

\* datetime.now().strftime("%Y%m%d_%H%M%S"): the clock's whole second.
Strftime(t) == t

\* f"{backup_dir}/{safe_filename}.{timestamp}.bak"
BackupPath(p, t) == <<SafeFilename(p), Strftime(t)>>

Put(fn, k, v) == [x \in (DOMAIN fn) \cup {k} |-> IF x = k THEN v ELSE fn[x]]

(* What the environment does to the commands of one call: f = <<step,      *)
(* outcome>> names the one command of the call that does not succeed, or   *)
(* is <<"none", "ok">>.  "failed" is a result with failed=True, "raised"   *)
(* an exception out of the dispatcher.  A local subprocess never raises    *)
(* (run_local_subprocess catches everything); a remote session can.  The   *)
(* transfer is a subprocess.run of its own and may fail or raise on either *)
(* platform.  The existence probe prints one of its two markers whenever   *)
(* it runs, and removing the caller's own temporary file with rm succeeds. *)
Faults(plat) ==
    {<<"none", "ok">>, <<"transfer", "raised">>} \cup
    {<<st, "failed">> : st \in {"cat", "transfer", "bkp", "mv", "chown", "chmod"}} \cup
    (IF plat = "linux_local" THEN {}
     ELSE {<<st, "raised">> :
              st \in {"probe", "cat", "probe2", "bkp", "mv", "chown", "chmod"}})

Oc(f, st) == IF f[1] = st THEN f[2] ELSE "ok"

\* files.py:14-22  remote_file_exists
RemoteFileExists(fs, p) == fs[p] # Absent

\* files.py:25-35  read_file: "" when the file is missing or cat failed.
ReadFile(fs, p, f) ==
    IF Oc(f, "probe") = "raised" THEN [raised |-> TRUE, text |-> ""]
    ELSE IF ~RemoteFileExists(fs, p) THEN [raised |-> FALSE, text |-> ""]
    ELSE IF Oc(f, "cat") = "raised" THEN [raised |-> TRUE, text |-> ""]
    ELSE IF Oc(f, "cat") = "failed" THEN [raised |-> FALSE, text |-> ""]
    ELSE [raised |-> FALSE, text |-> fs[p]]

Ret(kind, failed, changed, msg) ==
    [kind |-> kind, failed |-> failed, changed |-> changed, msg |-> msg]

Return(s, ret) == [s EXCEPT !.done = TRUE, !.ret = ret]
Did(s, what) == [s EXCEPT !.trace = Append(@, what)]

\* The except clause of write_file (files.py:124-125).
Unexpected(s) == Return(s, Ret("result", TRUE, FALSE, "Unexpected error"))

\* run_command(task, f"rm {remote_temp_path}")  (files.py:105, 113)
RmRemoteTmpMut(s) == Did(s, "rm_tmp")
RmRemoteTmp(s) == Did([s EXCEPT !.remoteTmp = @ \ {s.id}], "rm_tmp")

\* files.py:44-52: hash of the wanted and of the current content.
StepCompare(s) ==
    LET r == ReadFile(s.files, s.path, s.f)
        s1 == Did(s, "read")
    IN IF r.raised THEN Return(s1, Ret("raised", FALSE, FALSE, "exception"))
       ELSE IF Md5(s.content) = Md5(r.text)
            THEN Return(s1, Ret("result", FALSE, FALSE, "File is up to date"))
            ELSE s1

\* files.py:55-59: the local staged file and the remote temporary name.
StepStage(s) ==
    IF s.done THEN s
    ELSE Did([s EXCEPT !.localTmp = @ \cup {s.id}], "stage")

\* files.py:62-83 (always scp); linux.py:140-163 (cp with check=True on a local
\* target, scp otherwise).
TransferKind(i, plat) ==
    IF i = "utils.linux" /\ plat = "linux_local" THEN "cp" ELSE "scp"

StepTransfer(s) ==
    IF s.done THEN s
    ELSE LET kind == TransferKind(s.impl, s.plat)
             oc == Oc(s.f, "transfer")
             s1 == Did(s, kind)
         IN IF oc = "raised" \/ (oc = "failed" /\ kind = "cp") THEN Unexpected(s1)
            ELSE IF oc = "failed"
                 THEN Return(s1, Ret("result", TRUE, FALSE, "SCP Failed"))
                 ELSE [s1 EXCEPT !.remoteTmp = @ \cup {s.id}]

\* files.py:85-106: the versioned backup of an existing destination.
StepBackup(s) ==
    IF s.done THEN s
    ELSE IF Oc(s.f, "probe2") = "raised" THEN Unexpected(Did(s, "probe2"))
    ELSE IF ~RemoteFileExists(s.files, s.path) THEN Did(s, "probe2")
    ELSE LET oc == Oc(s.f, "bkp")
             name == BackupPath(s.path, s.now)
             s1 == Did(Did(s, "probe2"), "backup")
         IN IF oc = "raised" THEN Unexpected(s1)
            ELSE IF oc = "failed"
                 THEN Return(RmRemoteTmp(Did(s1, "backup_failed")),
                             Ret("result", TRUE, FALSE, "Backup failed"))
                 ELSE [s1 EXCEPT !.backups = Put(@, name, s.files[s.path]),
                                 !.bkp = {name}]

\* files.py:108-114: mv of the temporary file onto the destination.
StepMove(s) ==
    IF s.done THEN s
    ELSE LET oc == Oc(s.f, "mv")
             s1 == Did(s, "mv")
         IN IF oc = "raised" THEN Unexpected(s1)
            ELSE IF oc = "failed"
                 THEN Return(RmRemoteTmp(Did(s1, "mv_failed")),
                             Ret("result", TRUE, FALSE, "Move failed"))
                 ELSE [s1 EXCEPT !.files = [@ EXCEPT ![s.path] = s.content],
                                 !.remoteTmp = @ \ {s.id}]

\* files.py:116-123: chown and chmod, results not inspected.
StepPerms(s) ==
    IF s.done THEN s
    ELSE IF Oc(s.f, "chown") = "raised" THEN Unexpected(Did(s, "chown"))
    ELSE IF Oc(s.f, "chmod") = "raised" THEN Unexpected(Did(Did(s, "chown"), "chmod"))
    ELSE Return(Did(Did(s, "chown"), "chmod"),
                Ret("result", FALSE, TRUE, "File updated (Backup saved)"))

\* files.py:126-128: finally, once the local file was staged.
InTrace(t, x) == \E i \in DOMAIN t : t[i] = x

Finally(s) ==
    IF InTrace(s.trace, "stage")
    THEN [s EXCEPT !.localTmp = @ \ {s.id}]
    ELSE s

\* files.py:38-128 / linux.py:112-194
WriteFile(s) ==
    Finally(StepPerms(StepMove(StepBackup(StepTransfer(StepStage(StepCompare(s)))))))

\* History record of a call; rep describes the call before it when that call
\* had the same path and content.
NoRepeat == [is |-> FALSE, pre |-> Absent, ret |-> Ret("none", FALSE, FALSE, ""),
             clean |-> FALSE]
NoCall == [called |-> FALSE, path |-> << >>, content |-> "", pre |-> Absent,
           ret |-> Ret("none", FALSE, FALSE, ""), trace |-> << >>, bkp |-> {},
           id |-> 0, clean |-> FALSE, fault |-> <<"none", "ok">>, rep |-> NoRepeat,
           hist |-> {}, allOk |-> TRUE]

InitFile ==
    /\ platform \in Platforms
    /\ impl \in Impls
    /\ files \in {[p \in Paths |-> Absent],
                  [p \in Paths |-> IF p = PathSlash THEN "A" ELSE Absent],
                  [p \in Paths |-> IF p = PathSlash THEN "A" ELSE "B"]}
    /\ backups = << >>
    /\ remoteTmp = {}
    /\ localTmp = {}
    /\ clock = 0
    /\ nextUuid = 0
    /\ last = NoCall
    /\ EngineIdle /\ TaskIdle

\* One call write_file(task, p, c) on the target.
WriteFileCall(p, c, f) ==
    /\ nextUuid < MaxCalls
    /\ LET s0 == [files |-> files, backups |-> backups, remoteTmp |-> remoteTmp,
                  localTmp |-> localTmp, done |-> FALSE,
                  ret |-> Ret("none", FALSE, FALSE, ""), trace |-> << >>, bkp |-> {},
                  now |-> clock, id |-> nextUuid, impl |-> impl, plat |-> platform,
                  path |-> p, content |-> c, f |-> f]
           s == WriteFile(s0)
       IN /\ files' = s.files
          /\ backups' = s.backups
          /\ remoteTmp' = s.remoteTmp
          /\ localTmp' = s.localTmp
          /\ last' = [called |-> TRUE, path |-> p, content |-> c, pre |-> files[p],
                      ret |-> s.ret, trace |-> s.trace, bkp |-> s.bkp, id |-> nextUuid,
                      clean |-> (f = <<"none", "ok">>), fault |-> f,
                      rep |-> IF last.called /\ last.path = p /\ last.content = c
                              THEN [is |-> TRUE, pre |-> last.pre, ret |-> last.ret,
                                    clean |-> last.clean]
                              ELSE NoRepeat,
                      hist |-> last.hist \cup
                               (IF s.ret.kind = "result" /\ ~s.ret.failed /\ s.ret.changed
                                   /\ files[p] # Absent
                                THEN {[id |-> nextUuid, path |-> p, pre |-> files[p],
                                       name |-> BackupPath(p, clock)]}
                                ELSE {}),
                      allOk |-> last.allOk /\ s.ret.kind = "result" /\ ~s.ret.failed]
    /\ nextUuid' = nextUuid + 1
    /\ UNCHANGED <<platform, impl, clock>>
    /\ UNCHANGED <<engineVars, taskVars>>

\* A second passes on the wall clock.
Tick ==
    /\ clock < MaxClock
    /\ clock' = clock + 1
    /\ UNCHANGED <<platform, impl, files, backups, remoteTmp, localTmp, nextUuid,
                   last>>
    /\ UNCHANGED <<engineVars, taskVars>>

NextFile ==
    \/ \E p \in Paths, c \in Contents, f \in Faults(platform) : WriteFileCall(p, c, f)
    \/ Tick

SpecFile == InitFile /\ [][NextFile]_vars

(***************************************************************************)
(* Claims about the engine                                                 *)
(***************************************************************************)
LastDispatch == dispatchLog[Len(dispatchLog)]

\* C1: Engine halts on the first failing dispatch: once a task returned status
\* FAILED on some host of a dispatch, that dispatch stays the last one (no later
\* task of the group, no task of a later group is dispatched), the run cannot
\* end as done, and it ends halted with a non-zero exit code.
C1_HaltOnFirstFailure ==
    /\ \A i \in 1..Len(dispatchLog) : dispatchLog[i].failed => i = Len(dispatchLog)
    /\ (dispatchLog # << >> /\ LastDispatch.failed) =>
          /\ pc \in {"dispatched", "halted"}
          /\ exit_code # {0}
          /\ (DispatchJoined(group_hosts, hostState) /\ pc # "dispatched")
                => (pc = "halted" /\ exit_code = {1})

\* C1 witness: INIT halted after the first task of the first group failed; the
\* two later groups, which have chains and hosts, were never dispatched.
C1_Witness ==
    /\ pc = "halted" /\ exit_code = {1} /\ goal = "INIT" /\ target_filter = None
    /\ Len(dispatchLog) = 1
    /\ LastDispatch.group = "local_machine" /\ LastDispatch.failed

GroupRank(grp) ==
    CASE grp = "local_machine" -> 1
      [] grp = "k8s_control_plane" -> 2
      [] grp = "k8s_worker" -> 3

\* C2: Group and task ordering: dispatches follow the order local_machine,
\* k8s_control_plane, k8s_worker and, inside a group, the registry chain; an
\* invocation of a dispatch starts on a host only after every invocation of
\* every earlier dispatch has returned on all of that dispatch's hosts.
C2_Ordering ==
    /\ \A i \in 1..Len(dispatchLog) :
          LET d == dispatchLog[i]
          IN /\ d.ti \in 1..Len(TASK_REGISTRY[goal][d.group])
             /\ d.task = TASK_REGISTRY[goal][d.group][d.ti]
             /\ \A j \in 1..(i - 1) :
                   LET e == dispatchLog[j]
                   IN \/ GroupRank(e.group) < GroupRank(d.group)
                      \/ (e.group = d.group /\ e.ti < d.ti)
    /\ \A s \in started :
          \A j \in 1..(s[1] - 1) :
             \A h \in dispatchLog[j].hosts : <<j, h>> \in completed

\* C2 witness: with two control-plane hosts, a task of the worker group has
\* started after the whole control-plane chain ran on both hosts.
C2_Witness ==
    /\ goal = "INIT" /\ target_filter = None
    /\ dispatchLog # << >>
    /\ LastDispatch.group = "k8s_worker"
    /\ <<Len(dispatchLog), "w1">> \in started
    /\ \E j \in 1..Len(dispatchLog) :
          /\ dispatchLog[j].hosts = {"cp1", "cp2"}
          /\ dispatchLog[j].task = "setup_fluxcd"

\* C7: Unknown goal contacts no host: for a goal that is no key of
\* TASK_REGISTRY the run returns at once; no task is dispatched or started on
\* any host and no group is filtered.
C7_UnknownGoalNoContact ==
    (goal \notin DOMAIN TASK_REGISTRY) =>
        /\ dispatchLog = << >>
        /\ started = {}
        /\ filtered = {}
        /\ pc \in {"run", "returned"}

\* C7 witness: the verify command (goal CHECK) has returned.
C7_Witness == goal = "CHECK" /\ pc = "returned"

\* C8: Exit status of a run: once the command has ended, the exit code is 0
\* exactly when the goal is known and no dispatched task had status FAILED; an
\* unknown goal or a critical failure gives a non-zero exit code.
C8_ExitStatus ==
    (exit_code # {}) =>
        (exit_code = {0} <=>
            (/\ goal \in DOMAIN TASK_REGISTRY
             /\ \A i \in 1..Len(dispatchLog) : ~dispatchLog[i].failed))

ExactTargets(grp, f) == {h \in Hosts : grp \in HostGroups(h) /\ h = f}

NarrowedTo(f) ==
    /\ \A i \in 1..Len(dispatchLog) :
          dispatchLog[i].hosts = ExactTargets(dispatchLog[i].group, f)
    /\ \A s \in started : s[2] \in ExactTargets(dispatchLog[s[1]].group, f)

C12_OnlyFailedBlocks ==
    [][(pc = "dispatched" /\ pc' # "dispatched") =>
          /\ (pc' = "halted") <=> LastDispatch.failed
          /\ ~LastDispatch.failed => (pc' = "task" /\ ti' = ti + 1 /\ exit_code' = {})]_vars

\* C12 witness: a dispatch to cp1 and cp2 ended WARNING and SKIPPED and the
\* engine went on to the next task of the chain.
C12_Witness ==
    /\ pc = "task" /\ ti >= 2
    /\ DOMAIN results = {"cp1", "cp2"}
    /\ results["cp1"].status = "WARNING"
    /\ results["cp2"].status = "SKIPPED"
    /\ ~LastDispatch.failed
    /\ exit_code = {}

\* the hosts a group has left after the group filter and the host-name filter
Matching(grp) ==
    {h \in Hosts : grp \in HostGroups(h) /\ (target_filter \in {None, ""} \/ h = target_filter)}

\* C14: Empty work is skipped without effect: for a known goal a group with an
\* empty task list or with no matching host is never dispatched to and causes
\* no error (the run exits non-zero only after a failed dispatch), and the run
\* ends as done only after every task of every group that has tasks and
\* matching hosts was dispatched, in order.
C14_EmptyWorkSkipped ==
    (goal \in DOMAIN TASK_REGISTRY) =>
        /\ \A i \in 1..Len(dispatchLog) :
              /\ TASK_REGISTRY[goal][dispatchLog[i].group] # << >>
              /\ dispatchLog[i].hosts # {}
              /\ dispatchLog[i].hosts = Matching(dispatchLog[i].group)
        /\ exit_code = {1} => (dispatchLog # << >> /\ LastDispatch.failed)
        /\ pc = "done" =>
              /\ exit_code = {0}
              /\ \A g \in 1..Len(GROUP_EXECUTION_ORDER) :
                    LET grp == GROUP_EXECUTION_ORDER[g]
                    IN Matching(grp) # {} =>
                          \A t \in 1..Len(TASK_REGISTRY[goal][grp]) :
                             \E i \in 1..Len(dispatchLog) :
                                dispatchLog[i].group = grp /\ dispatchLog[i].ti = t

\* C14 witness: INIT filtered to w1: local_machine and k8s_control_plane have
\* no matching host and were skipped, the worker chain ran to its end.
C14_Witness ==
    /\ goal = "INIT" /\ target_filter = "w1" /\ pc = "done"
    /\ Len(dispatchLog) = Len(TASK_REGISTRY["INIT"]["k8s_worker"])
    /\ \A i \in 1..Len(dispatchLog) : dispatchLog[i].group = "k8s_worker"
    /\ filtered = {"local_machine", "k8s_control_plane", "k8s_worker"}

(***************************************************************************)
(* ensure_line_in_file (src/tasks/utils/files.py:131-160 and               *)
(* src/utils/linux.py:197-220).  File contents are texts whose lines end   *)
(* in "\n"; a pattern is known by the lines regex.search finds it in.      *)
(***************************************************************************)
NL == "\n"

Lines == {"x", "y1", "y2"}

\* the line argument and the match_regex argument (None: not given)
LineArgs == {"x", "y1"}
Patterns == {None, "^y", "^z"}

MaxLines == 4

LineSeqs == UNION {[1..n -> Lines] : n \in 0..MaxLines}

\* regex.search(l) for the compiled pattern rx
Search(rx, l) == rx = "^y" /\ l \in {"y1", "y2"}

\* "\n".join(ls)
RECURSIVE Join(_)
Join(ls) ==
    IF ls = << >> THEN ""
    ELSE IF Len(ls) = 1 THEN ls[1]
    ELSE ls[1] \o NL \o Join(Tail(ls))

\* text.splitlines(): the lines without their line ends; a last line needs no
\* line end, and the empty text has no line.
Splitlines(text) ==
    IF text = "" THEN << >>
    ELSE CHOOSE ls \in LineSeqs :
            ls # << >> /\ (text = Join(ls) \o NL \/ text = Join(ls))

\* files.py:140-148: every line the pattern finds is replaced
ReplaceMatching(lines, line, rx) ==
    [i \in DOMAIN lines |-> IF Search(rx, lines[i]) THEN line ELSE lines[i]]

\* files.py:137-160  ensure_line_in_file; fr is what happens to the commands of
\* its own read_file, s.f what happens to those of write_file.
ensure_line_in_file(s, line, rx, fr) ==
    LET r == ReadFile(s.files, s.path, fr)
        lines == Splitlines(r.text)
        found == \E i \in DOMAIN lines : Search(rx, lines[i])
        new_lines == IF rx # None
                     THEN (IF found THEN ReplaceMatching(lines, line, rx)
                           ELSE Append(lines, line))
                     ELSE Append(lines, line)
        final_content == Join(new_lines) \o NL
    IN IF r.raised THEN Return(s, Ret("raised", FALSE, FALSE, "exception"))
       ELSE IF rx = None /\ (\E i \in DOMAIN lines : lines[i] = line)
            THEN Return(s, Ret("result", FALSE, FALSE, "Line already exists"))
            ELSE WriteFile([s EXCEPT !.content = final_content])

\* what can happen to the commands of ensure_line_in_file's own read_file
ReadFaults(plat) ==
    {<<"none", "ok">>, <<"cat", "failed">>} \cup
    (IF plat = "linux_local" THEN {} ELSE {<<"cat", "raised">>})

InitialTexts == {Absent, "x" \o NL, "y1" \o NL \o "y2" \o NL, "x" \o NL \o "y2"}

NoLineCall ==
    [called |-> FALSE, path |-> << >>, line |-> "", rx |-> None, pre |-> Absent,
     preb |-> {}, ret |-> Ret("none", FALSE, FALSE, ""), trace |-> << >>,
     clean |-> FALSE, rep |-> [is |-> FALSE, ok |-> FALSE]]

InitLine ==
    /\ platform \in Platforms
    /\ impl \in Impls
    /\ files \in {[p \in Paths |-> IF p = PathSlash THEN t ELSE Absent] : t \in InitialTexts}
    /\ backups = << >>
    /\ remoteTmp = {}
    /\ localTmp = {}
    /\ clock = 0
    /\ nextUuid = 0
    /\ last = NoLineCall
    /\ EngineIdle /\ TaskIdle

\* One call ensure_line_in_file(task, p, line, match_regex=rx) on the target.
EnsureLineCall(p, line, rx, fr, f) ==
    /\ nextUuid < MaxCalls
    /\ LET s0 == [files |-> files, backups |-> backups, remoteTmp |-> remoteTmp,
                  localTmp |-> localTmp, done |-> FALSE,
                  ret |-> Ret("none", FALSE, FALSE, ""), trace |-> << >>, bkp |-> {},
                  now |-> clock, id |-> nextUuid, impl |-> impl, plat |-> platform,
                  path |-> p, content |-> "", f |-> f]
           s == ensure_line_in_file(s0, line, rx, fr)
       IN /\ files' = s.files
          /\ backups' = s.backups
          /\ remoteTmp' = s.remoteTmp
          /\ localTmp' = s.localTmp
          /\ last' = [called |-> TRUE, path |-> p, line |-> line, rx |-> rx,
                      pre |-> files[p], preb |-> DOMAIN backups,
                      ret |-> s.ret, trace |-> s.trace,
                      clean |-> (f = <<"none", "ok">> /\ fr = <<"none", "ok">>),
                      rep |-> [is |-> last.called /\ last.path = p /\ last.line = line
                                       /\ last.rx = rx,
                               ok |-> last.ret.kind = "result" /\ ~last.ret.failed]]
    /\ nextUuid' = nextUuid + 1
    /\ UNCHANGED <<platform, impl, clock>>
    /\ UNCHANGED <<engineVars, taskVars>>

NextLine ==
    \E line \in LineArgs, rx \in Patterns, fr \in ReadFaults(platform),
       f \in Faults(platform) : EnsureLineCall(PathSlash, line, rx, fr, f)

SpecLine == InitLine /\ [][NextLine]_vars

\* C19: Hosts of one dispatch are independent: while a dispatch is open, a
\* host whose invocation has not started can start and a started one can
\* finish, whatever the other hosts returned; and the engine leaves the
\* dispatch only when every host of it has started and finished, deciding to
\* halt exactly when one of all these hosts' results is a failure.
C19_HostsIndependent ==
    /\ [](pc = "dispatched" =>
            \A h \in LastDispatch.hosts :
               /\ hostState[h] = "pending" => ENABLED HostStart(h)
               /\ hostState[h] = "running" =>
                     \A r \in HostResults :
                        (r.isStd => r.status \in StatusesOf(LastDispatch.task))
                           => ENABLED HostFinish(h, r))
    /\ [][(pc = "dispatched" /\ pc' # "dispatched") =>
            /\ DOMAIN results = LastDispatch.hosts
            /\ \A h \in LastDispatch.hosts :
                  /\ <<Len(dispatchLog), h>> \in started \cap completed
                  /\ hostState[h] = "finished"
                  /\ results[h] \in HostResults
            /\ (pc' = "halted") <=>
                  \E h \in LastDispatch.hosts : StatusOf(results[h]) = "FAILED"]_vars

\* C19 witness: the engine halted on a dispatch to two hosts where one host
\* had a transport failure and the other ran the task to a result that is OK.
C19_Witness ==
    /\ pc = "halted" /\ dispatchLog # << >>
    /\ LastDispatch.hosts = {"cp1", "cp2"}
    /\ results["cp1"] = TransportFailure
    /\ results["cp2"].isStd /\ results["cp2"].status = "OK"
    /\ \A h \in LastDispatch.hosts : <<Len(dispatchLog), h>> \in completed

\* C23: Termination of a run: with every per-host invocation terminating, a
\* run for a known goal eventually is done or halted; and it is done only if
\* every task of every group with matching hosts was dispatched to those hosts
\* and no dispatch had a FAILED result.
C23_RunTerminates ==
    /\ (pc = "run" /\ ~GoalUnknown(goal)) ~> (pc \in {"done", "halted"})
    /\ [](pc = "done" =>
            /\ ~GoalUnknown(goal)
            /\ \A i \in 1..Len(dispatchLog) : ~dispatchLog[i].failed
            /\ \A g \in 1..Len(GROUP_EXECUTION_ORDER) :
                  LET grp == GROUP_EXECUTION_ORDER[g]
                  IN Matching(grp) # {} =>
                        \A t \in 1..Len(ChainOf(goal, grp)) :
                           \E i \in 1..Len(dispatchLog) :
                              /\ dispatchLog[i].gi = g /\ dispatchLog[i].ti = t
                              /\ dispatchLog[i].task = ChainOf(goal, grp)[t]
                              /\ dispatchLog[i].hosts = Matching(grp)
                              /\ \A h \in Matching(grp) : <<i, h>> \in completed)

\* C23 witness: INIT without a target ran all three groups' chains and is done.
C23_Witness ==
    /\ pc = "done" /\ goal = "INIT" /\ target_filter = None
    /\ Len(dispatchLog) = 18
    /\ \A i \in 1..Len(dispatchLog) : ~dispatchLog[i].failed

\* invocations that began and have not returned
Active == started \ completed

\* C24: Per-host isolation: no host ever has two task invocations active at the
\* same time, and every write of os_facts into a host's data bag was made by an
\* invocation running for that same host, in a dispatch that host took part in.
C24_PerHostIsolation ==
    /\ \A a1, a2 \in Active : a1[2] = a2[2] => a1 = a2
    /\ \A h \in DOMAIN bag : \A w \in bag[h] :
          /\ w.by = h
          /\ <<w.dispatch, h>> \in completed
          /\ dispatchLog[w.dispatch].task = "gather_system_facts"

\* C24 witness: both control-plane hosts ran gather_system_facts in parallel
\* in one dispatch; cp1 already stored its facts while cp2 is still active.
C24_Witness ==
    /\ pc = "dispatched"
    /\ LastDispatch.task = "gather_system_facts"
    /\ LastDispatch.hosts = {"cp1", "cp2"}
    /\ bag["cp1"] # {} /\ bag["cp2"] = {}
    /\ <<Len(dispatchLog), "cp2">> \in Active

\* The tasks that read os_facts from the host's data bag
\* (azure_cli_setup.py:16, cri_containerd_setup.py:67 and 172,
\* k8s_tools_installation.py:26).
FactReaders == {"ensure_azure_cli", "install_containerd", "install_kubernetes_tools"}

\* C29: Facts are available before they are read: in every chain of the
\* registry a task reading os_facts comes after gather_system_facts, and an
\* invocation of such a task for host h starts only after an earlier dispatch
\* of gather_system_facts in which no host failed stored os_facts for h.
C29_FactsBeforeRead ==
    /\ \A g \in DOMAIN TASK_REGISTRY : \A grp \in DOMAIN TASK_REGISTRY[g] :
          \A i \in DOMAIN TASK_REGISTRY[g][grp] :
             TASK_REGISTRY[g][grp][i] \in FactReaders =>
                \E j \in 1..(i - 1) : TASK_REGISTRY[g][grp][j] = "gather_system_facts"
    /\ \A s \in started :
          dispatchLog[s[1]].task \in FactReaders =>
             \E w \in bag[s[2]] :
                /\ w.dispatch < s[1]
                /\ w.by = s[2]
                /\ dispatchLog[w.dispatch].task = "gather_system_facts"
                /\ dispatchLog[w.dispatch].group = dispatchLog[s[1]].group
                /\ ~dispatchLog[w.dispatch].failed

\* C29 witness: install_containerd was started on worker w1, whose facts
\* gather_system_facts had stored earlier in the worker chain.
C29_Witness ==
    /\ pc = "dispatched" /\ LastDispatch.task = "install_containerd"
    /\ LastDispatch.group = "k8s_worker"
    /\ <<Len(dispatchLog), "w1">> \in started
    /\ bag["w1"] # {}

\* settings.py:43  local_kubeconfig_path
LocalKubeconfigPath == "inventory/kubeconfig_admin.yaml"

\* The files on the control machine that an invocation of task t for host h
\* has written when it returns a result that is not FAILED:
\* _fetch_kubeconfig_local (k8s_control_plane_init.py:84-86) opens the path from
\* the settings for writing, the same for every host.
LocalWritesOf(t, h) ==
    IF t = "init_control_plane" THEN {LocalKubeconfigPath} ELSE {}

\* host h's invocation in the current dispatch returned a result that is not FAILED
Succeeded(h) ==
    /\ hostState[h] = "finished"
    /\ results[h].isStd /\ results[h].status # "FAILED"

\* C28: No cross-host write race during a dispatch: two invocations of the
\* same task that ran at the same time for different hosts and both succeeded
\* wrote no common file on the control machine (in particular two
\* init_control_plane invocations and the local kubeconfig path).
C28_NoCrossHostWriteRace ==
    (pc \in {"dispatched", "task", "halted"} /\ dispatchLog # << >>) =>
        \A h1, h2 \in LastDispatch.hosts :
            (h1 # h2 /\ {h1, h2} \in LastDispatch.overlap
                /\ h1 \in DOMAIN hostState /\ h2 \in DOMAIN hostState
                /\ Succeeded(h1) /\ Succeeded(h2)) =>
                LocalWritesOf(LastDispatch.task, h1)
                    \cap LocalWritesOf(LastDispatch.task, h2) = {}

(***************************************************************************)
(* Claims about write_file                                                 *)
(***************************************************************************)
Before(t, x, y) == \E i, j \in DOMAIN t : i < j /\ t[i] = x /\ t[j] = y

Touches(t) == \E x \in {"cp", "scp", "backup", "mv"} : InTrace(t, x)

\* C3: Idempotent write: when every command of the call succeeds, the file's
\* bytes equal content after the call; and of two calls in a row with the same
\* path and content (the file not holding content before the first), the first
\* returns changed=true, the second changed=false without transfer, backup or
\* move.
C3_IdempotentWrite ==
    /\ (last.called /\ last.clean) => files[last.path] = last.content
    /\ (last.called /\ last.clean /\ last.rep.is /\ last.rep.clean
            /\ last.rep.pre # last.content) =>
          /\ last.rep.ret.changed
          /\ ~last.ret.changed
          /\ ~Touches(last.trace)

\* C4: Backup before overwrite: when path held A, write_file was called with
\* B # A and returned a result that is not failed, the backup written by the
\* call holds A, path holds B, and the backup was taken before the move.
C4_BackupBeforeOverwrite ==
    (/\ last.called /\ last.pre # Absent /\ last.content # last.pre
     /\ last.ret.kind = "result" /\ ~last.ret.failed) =>
        /\ \E b \in last.bkp : b \in DOMAIN backups /\ backups[b] = last.pre
        /\ files[last.path] = last.content
        /\ Before(last.trace, "backup", "mv")

StageFailed(st) ==
    /\ last.called /\ last.fault = <<st, "failed">>
    /\ InTrace(last.trace, CASE st = "transfer" -> TransferKind(impl, platform)
                             [] st = "bkp" -> "backup"
                             [] OTHER -> st)

\* The messages of the failed results write_file builds (files.py:82, 106,
\* 114); no message exists for chown or chmod.
StageMessage(st) ==
    CASE st = "transfer" -> {"SCP Failed"}
      [] st = "bkp" -> {"Backup failed"}
      [] st = "mv" -> {"Move failed"}
      [] OTHER -> {}

Stages == {"transfer", "bkp", "mv", "chown", "chmod"}

\* C17: Every failing stage of write_file yields a failed result: a failed
\* transfer, backup, move, chown or chmod makes write_file return failed=true
\* with a message naming that stage, and write_file returns changed=true only
\* if none of these stages failed.
C17_FailingStageFails ==
    /\ \A st \in Stages : StageFailed(st) =>
          /\ last.ret.kind = "result" /\ last.ret.failed
          /\ StageMessage(st) # {} => last.ret.msg \in StageMessage(st)
    /\ (last.called /\ last.ret.changed) => \A st \in Stages : ~StageFailed(st)

\* C18: No partial state on failure: whenever write_file returns a failed
\* result the destination holds what it held before the call; the destination
\* changes only in a call that ran the move, and then it holds the new content.
C18_NoPartialState ==
    /\ (last.called /\ last.ret.kind = "result" /\ last.ret.failed) =>
          files[last.path] = last.pre
    /\ (last.called /\ files[last.path] # last.pre) =>
          /\ InTrace(last.trace, "mv")
          /\ files[last.path] = last.content

\* C20: Remote temporary file cleanup: when a call transferred the staged
\* content to the target and then returned a failed result (backup failure,
\* move failure, or an exception in a later step), the remote temporary file
\* of the call no longer exists.
C20_RemoteTmpCleanup ==
    (/\ last.called /\ last.ret.kind = "result" /\ last.ret.failed
     /\ \E i \in DOMAIN last.trace :
           /\ last.trace[i] = TransferKind(impl, platform)
           /\ i < Len(last.trace)) =>
        last.id \notin remoteTmp

\* C21: Every overwrite is recoverable: after a sequence of write_file calls
\* that all returned a result that is not failed, every call that overwrote an
\* existing file has its backup file holding the content it overwrote, and no
\* two overwrites share a backup name.
C21_OverwriteRecoverable ==
    (last.called /\ last.allOk) =>
        /\ \A o \in last.hist :
              o.name \in DOMAIN backups /\ backups[o.name] = o.pre
        /\ \A o1, o2 \in last.hist : o1.id # o2.id => o1.name # o2.name

\* C22: The transfer step follows the dispatch rule: in a call that reached
\* the transfer, a target of platform linux_local gets the staged content by a
\* local copy (cp), and scp is used only for targets that are not local.
C22_TransferDispatchRule ==
    (last.called /\ InTrace(last.trace, "stage")) =>
        /\ platform = "linux_local" =>
              (InTrace(last.trace, "cp") /\ ~InTrace(last.trace, "scp"))
        /\ InTrace(last.trace, "scp") => platform # "linux_local"

\* C27: Soundness of "up to date": write_file returns a result that is not
\* failed with changed=false only if the destination existed before the call
\* and held exactly the requested content; a missing or unreadable destination
\* is never reported as up to date, also for empty requested content.
C27_UpToDateSound ==
    (last.called /\ last.ret.kind = "result" /\ ~last.ret.failed /\ ~last.ret.changed) =>
        /\ last.pre # Absent
        /\ last.pre = last.content
        /\ last.fault[1] # "cat"

(***************************************************************************)
(* Registered tasks (src/tasks/*.py) and the two decorators                *)
(* (src/core/decorators.py).  A sub-step is identified by the name of its  *)
(* function; its result is one of the SubTaskResult values its return      *)
(* statements build, or the one automated_substep builds when the body     *)
(* raises.  Messages are tuples of their fixed text; data values are the   *)
(* printed form of the Python value.                                       *)
(***************************************************************************)
SubTaskResult(success, message, data) ==
    [success |-> success, message |-> <<message>>, data |-> data]

\* Python truthiness of a sub-step's data (None, False and "" are falsy)
Truthy(d) == d \notin {"None", "False", ""}

\* str.lower() on the distribution ids that occur
Lower(x) == IF x = "Ubuntu" THEN "ubuntu" ELSE x

\* add_apt_repository: the SubTaskResult it returns
add_apt_repository ==
    { SubTaskResult(FALSE, "Failed to download GPG key", "None"),
      SubTaskResult(FALSE, "Failed to dearmor GPG key", "None"),
      SubTaskResult(FALSE, "Failed to write repo file", "None"),
      SubTaskResult(FALSE, "Verification failed: repo file was not created", "None"),
      SubTaskResult(TRUE, "APT repository configured", "None") }

\* src/tasks/facts.py: the SubTaskResult values the body of each sub-step returns
facts_returns(step) ==
    CASE step = "_get_os_release" ->
           { SubTaskResult(FALSE, "Could not read /etc/os-release", "None"),
             SubTaskResult(TRUE, "OS Release parsed", "ubuntu"),
             SubTaskResult(TRUE, "OS Release parsed", "Ubuntu"),
             SubTaskResult(TRUE, "OS Release parsed", "debian"),
             SubTaskResult(TRUE, "OS Release parsed", "fedora") }
      [] step = "_get_cpu_arch" ->
           { SubTaskResult(FALSE, "Could not determine architecture", "None"),
             SubTaskResult(TRUE, "Architecture", "amd64") }
      [] OTHER -> {}

\* src/tasks/os_hostname_setup.py: the SubTaskResult values the body of each sub-step returns
os_hostname_setup_returns(step) ==
    CASE step = "_ensure_hostname" ->
           { SubTaskResult(FALSE, "Failed to retrieve hostname", "None"),
             SubTaskResult(TRUE, "Hostname already set", "None"),
             SubTaskResult(FALSE, "Failed to set hostname", "None"),
             SubTaskResult(TRUE, "Hostname changed", "None") }
      [] step = "_ensure_localhost_entry" ->
           { SubTaskResult(FALSE, "Failed to update /etc/hosts", "None"),
             SubTaskResult(TRUE, "Localhost entry updated", "None"),
             SubTaskResult(TRUE, "Localhost entry present", "None") }
      [] step = "_ensure_resolution_entry" ->
           { SubTaskResult(FALSE, "Failed to update resolution IP", "None"),
             SubTaskResult(TRUE, "Resolution entry set", "None"),
             SubTaskResult(TRUE, "Resolution entry correct", "None") }
      [] OTHER -> {}

\* src/tasks/azure_cli_setup.py: the SubTaskResult values the body of each sub-step returns
azure_cli_setup_returns(step) ==
    CASE step = "_add_azure_cli_repo" ->
           { SubTaskResult(FALSE, "OS Facts not found", "None") } \cup add_apt_repository
      [] step = "_install_package" ->
           { SubTaskResult(FALSE, "Apt install failed", "None"),
             SubTaskResult(TRUE, "Package installed", "None") }
      [] OTHER -> {}

\* src/tasks/azure_auth_setup.py: the SubTaskResult values the body of each sub-step returns
azure_auth_setup_returns(step) ==
    CASE step = "_check_cli_installed" ->
           { SubTaskResult(FALSE, "Binary 'az' not found", "None"),
             SubTaskResult(TRUE, "CLI Found", "None") }
      [] step = "_check_active_session" ->
           { SubTaskResult(FALSE, "No active session (az login required)", "None"),
             SubTaskResult(TRUE, "Session Active", "dict"),
             SubTaskResult(FALSE, "JSON parse error on auth data", "None") }
      [] step = "_verify_subscription" ->
           { SubTaskResult(FALSE, "Missing app_config in inventory", "None"),
             SubTaskResult(TRUE, "Context Correct", "None"),
             SubTaskResult(FALSE, "Failed to switch", "None"),
             SubTaskResult(TRUE, "Context Switched", "None") }
      [] step = "_check_extensions" ->
           { SubTaskResult(FALSE, "Failed to list extensions", "None"),
             SubTaskResult(FALSE, "Missing extensions", "None"),
             SubTaskResult(TRUE, "Extensions OK", "None") }
      [] step = "_check_providers" ->
           { SubTaskResult(FALSE, "Failed to list providers", "None"),
             SubTaskResult(FALSE, "Missing providers", "None"),
             SubTaskResult(TRUE, "Providers OK", "None") }
      [] OTHER -> {}

\* src/tasks/azure_arc_onboarding.py: the SubTaskResult values the body of each sub-step returns
azure_arc_onboarding_returns(step) ==
    CASE step = "_check_arc_status" ->
           { SubTaskResult(TRUE, "Cluster not connected yet", "False"),
             SubTaskResult(TRUE, "Already connected", "True"),
             SubTaskResult(FALSE, "JSON Parse Error", "None") }
      [] step = "_connect_cluster" ->
           { SubTaskResult(FALSE, "Local Kubeconfig not found", "None"),
             SubTaskResult(FALSE, "Arc connection failed", "None"),
             SubTaskResult(TRUE, "Arc Agents installed & connected", "None") }
      [] OTHER -> {}

\* src/tasks/k8s_node_preparation.py: the SubTaskResult values the body of each sub-step returns
k8s_node_preparation_returns(step) ==
    CASE step = "_load_kernel_modules" ->
           { SubTaskResult(FALSE, "Failed to write modules config", "None"),
             SubTaskResult(FALSE, "Failed to load modules", "None"),
             SubTaskResult(TRUE, "Modules loaded & persisted", "None") }
      [] step = "_configure_sysctl" ->
           { SubTaskResult(FALSE, "Failed to write sysctl config", "None"),
             SubTaskResult(FALSE, "Failed to reload sysctl", "None"),
             SubTaskResult(TRUE, "Applied sysctl parameters", "None") }
      [] step = "_disable_swap_runtime" ->
           { SubTaskResult(TRUE, "Swap already disabled", "None"),
             SubTaskResult(FALSE, "Failed to run swapoff", "None"),
             SubTaskResult(TRUE, "Swap disabled at runtime", "None") }
      [] step = "_disable_swap_fstab" ->
           { SubTaskResult(FALSE, "Could not read /etc/fstab", "None"),
             SubTaskResult(TRUE, "/etc/fstab already configured", "None"),
             SubTaskResult(FALSE, "Failed to update fstab", "None"),
             SubTaskResult(TRUE, "/etc/fstab updated (swap commented)", "None") }
      [] OTHER -> {}

\* src/tasks/cri_containerd_setup.py: the SubTaskResult values the body of each sub-step returns
cri_containerd_setup_returns(step) ==
    CASE step = "_install_deps" ->
           { SubTaskResult(FALSE, "Failed to install dependencies", "None"),
             SubTaskResult(TRUE, "Dependencies installed", "None") }
      [] step = "_setup_gpg" ->
           { SubTaskResult(TRUE, "GPG Key already present", "None"),
             SubTaskResult(FALSE, "Failed to download GPG key", "None"),
             SubTaskResult(FALSE, "Failed to dearmor GPG key", "None"),
             SubTaskResult(TRUE, "GPG Key setup complete", "None") }
      [] step = "_add_repo" ->
           { SubTaskResult(FALSE, "Missing OS Facts. Run 'gather_system_facts' first.", "None"),
             SubTaskResult(FALSE, "Failed to write docker.list", "None"),
             SubTaskResult(TRUE, "Repo added", "None"),
             SubTaskResult(TRUE, "Repo up-to-date", "None") }
      [] step = "_install_containerd" ->
           { SubTaskResult(FALSE, "Apt install failed", "None"),
             SubTaskResult(TRUE, "Containerd installed", "None") }
      [] step = "_configure_containerd" ->
           { SubTaskResult(FALSE, "Failed to generate default config", "None"),
             SubTaskResult(FALSE, "Failed to write config file", "None"),
             SubTaskResult(FALSE, "Failed to patch config.toml", "None"),
             SubTaskResult(TRUE, "Config patched (SystemdCgroup=true)", "None"),
             SubTaskResult(TRUE, "Config already correct", "None") }
      [] step = "_restart_service" ->
           { SubTaskResult(FALSE, "Failed to restart service", "None"),
             SubTaskResult(TRUE, "Service restarted & enabled", "None") }
      [] OTHER -> {}

\* src/tasks/k8s_tools_installation.py: the SubTaskResult values the body of each sub-step returns
k8s_tools_installation_returns(step) ==
    CASE step = "_add_kubernetes_repo" ->
           { SubTaskResult(FALSE, "Missing OS Facts", "None") } \cup add_apt_repository
      [] step = "_install_packages" ->
           { SubTaskResult(FALSE, "Apt install failed", "None"),
             SubTaskResult(TRUE, "Packages installed", "None") }
      [] step = "_hold_packages" ->
           { SubTaskResult(FALSE, "Failed to hold packages", "None"),
             SubTaskResult(TRUE, "Version lock enabled (held)", "None") }
      [] step = "_enable_service" ->
           { SubTaskResult(FALSE, "Failed to enable service", "None"),
             SubTaskResult(TRUE, "Kubelet enabled", "None") }
      [] OTHER -> {}

\* src/tasks/k8s_control_plane_init.py: the SubTaskResult values the body of each sub-step returns
k8s_control_plane_init_returns(step) ==
    CASE step = "_check_initialization" ->
           { SubTaskResult(TRUE, "Cluster already initialized", "True"),
             SubTaskResult(TRUE, "Cluster not initialized", "False") }
      [] step = "_create_kubeadm_config" ->
           { SubTaskResult(FALSE, "Failed to write kubeadm-config.yaml", "None"),
             SubTaskResult(TRUE, "Config created", "None") }
      [] step = "_run_kubeadm_init" ->
           { SubTaskResult(FALSE, "Init failed", "None"),
             SubTaskResult(TRUE, "Control Plane Initialized", "None") }
      [] step = "_fetch_kubeconfig_local" ->
           { SubTaskResult(FALSE, "Failed to read remote admin.conf or file is empty", "None"),
             SubTaskResult(FALSE, "Failed to write local file", "None"),
             SubTaskResult(TRUE, "Saved to local path", "None") }
      [] step = "_setup_user_kubeconfig" ->
           { SubTaskResult(FALSE, "Failed to copy kubeconfig", "None"),
             SubTaskResult(FALSE, "Failed to set permissions", "None"),
             SubTaskResult(TRUE, "Remote User kubeconfig configured", "None") }
      [] step = "_install_cni" ->
           { SubTaskResult(FALSE, "Local kubeconfig not found", "None"),
             SubTaskResult(FALSE, "CNI Install Failed", "None"),
             SubTaskResult(FALSE, "Local execution error", "None"),
             SubTaskResult(TRUE, "CNI Plugin installed via Local Kubectl", "None") }
      [] step = "_untaint_node" ->
           { SubTaskResult(FALSE, "Untaint Failed", "None"),
             SubTaskResult(FALSE, "Local execution error", "None"),
             SubTaskResult(TRUE, "Control Plane untainted via Local Kubectl", "None") }
      [] OTHER -> {}

\* src/tasks/gitops_flux_setup.py: the SubTaskResult values the body of each sub-step returns
gitops_flux_setup_returns(step) ==
    CASE step = "_install_flux_cli" ->
           { SubTaskResult(TRUE, "Flux CLI already installed", "None"),
             SubTaskResult(FALSE, "Failed to download Flux CLI install script", "None"),
             SubTaskResult(FALSE, "Failed to install Flux CLI", "None"),
             SubTaskResult(TRUE, "Flux CLI installed", "None") }
      [] step = "_configure_ssh_key" ->
           { SubTaskResult(FALSE, "Local key not found", "None"),
             SubTaskResult(FALSE, "Failed to read local key", "None"),
             SubTaskResult(FALSE, "Failed to write remote key file", "None"),
             SubTaskResult(TRUE, "SSH Key configured", "None") }
      [] step = "_bootstrap_flux" ->
           { SubTaskResult(TRUE, "Bootstrap already completed", "None"),
             SubTaskResult(FALSE, "Bootstrap failed", "None"),
             SubTaskResult(TRUE, "Flux Bootstrapped (Key cleaned up)", "None") }
      [] OTHER -> {}

SubReturns(step) ==
    facts_returns(step)
    \cup os_hostname_setup_returns(step)
    \cup azure_cli_setup_returns(step)
    \cup azure_auth_setup_returns(step)
    \cup azure_arc_onboarding_returns(step)
    \cup k8s_node_preparation_returns(step)
    \cup cri_containerd_setup_returns(step)
    \cup k8s_tools_installation_returns(step)
    \cup k8s_control_plane_init_returns(step)
    \cup gitops_flux_setup_returns(step)

\* task.run(send_command) raises when the remote command's result is failed
\* (lost session, timeout); run_local_subprocess catches every exception.
\* _check_environment runs no command.
Raises(step, plat) == plat # "linux_local" /\ step # "_check_environment"

\* what the body of a sub-step does: return one of its results, or raise
SubBodies(step, plat) ==
    {[raised |-> FALSE, val |-> r] : r \in SubReturns(step)}
    \cup (IF Raises(step, plat)
          THEN {[raised |-> TRUE, val |-> SubTaskResult(FALSE, "NornirSubTaskError", "None")]}
          ELSE {})

\* automated_substep: the wrapper's return value for a body outcome b
automated_substep(step, b) ==
    IF b.raised
    THEN [success |-> FALSE, message |-> <<"Exception in", step, b.val.message[1]>>,
          data |-> "None"]
    ELSE b.val

\* every way the sub-steps of a chain can answer: one wrapped result per step
RECURSIVE SubOuts(_, _)
SubOuts(steps, plat) ==
    IF steps = << >> THEN {<< >>}
    ELSE {<<automated_substep(Head(steps), b)>> \o t :
              b \in SubBodies(Head(steps), plat), t \in SubOuts(Tail(steps), plat)}

\* nornir Result carrying a StandardResult
Result(failed, status, message) ==
    [failed |-> failed, status |-> status, message |-> message]

FailMut(sub_res) == Result(FALSE, "FAILED", sub_res.message)

fail(sub_res) == Result(TRUE, "FAILED", sub_res.message)

\* what a task body did: the sub-steps it invoked, their results, and either
\* the Result it returned or the fact that it raised
TaskOut(calls, subs, ret) ==
    [raised |-> FALSE, calls |-> calls, subs |-> subs, ret |-> ret, cmd |-> NoInv.cmd]

\* the body raised an exception whose str() is e
TaskRaise(calls, subs, e) ==
    [raised |-> TRUE, calls |-> calls, subs |-> subs, ret |-> Result(FALSE, None, <<e>>),
     cmd |-> NoInv.cmd]

\* the recurring pattern  s = step(task); if not s.success: return fail(task, s)
\* applied to steps[i..], ending with  return final
RECURSIVE FailFast(_, _, _, _)
FailFast(steps, o, i, final) ==
    IF i > Len(steps) THEN TaskOut(steps, o, final)
    ELSE IF ~o[i].success
         THEN TaskOut(SubSeq(steps, 1, i), SubSeq(o, 1, i), fail(o[i]))
         ELSE FailFast(steps, o, i + 1, final)

\* sub-steps c (results s) were invoked before the part of the body that gave r
After(c, s, r) == [r EXCEPT !.calls = c \o @, !.subs = s \o @]

\* automated_step: the wrapper's return value for the body's outcome r
AutomatedStepMut(r) ==
    [raised |-> r.raised, calls |-> r.calls, subs |-> r.subs, ret |-> r.ret]

automated_step(r) ==
    IF r.raised
    THEN [raised |-> FALSE, calls |-> r.calls, subs |-> r.subs,
          ret |-> Result(TRUE, "FAILED", <<"System Error: ", r.ret.message[1]>>)]
    ELSE [raised |-> FALSE, calls |-> r.calls, subs |-> r.subs, ret |-> r.ret]

\* outcomes of a command run directly in a task body
\* what the execution underneath run_command does: exit status 0, a non-zero
\* exit status, sudo asking for a password (only with sudo), and the call that
\* runs the command raising (subprocess.run locally, task.run remotely)
CmdOutcomes(plat, sudo) ==
    {"ok", "failed", "raised"} \cup (IF sudo THEN {"sudo_password"} ELSE {})

\* command.py:48-90  run_local_subprocess: every exception is caught
run_local_subprocess(x) ==
    CASE x = "ok" -> [raised |-> FALSE, failed |-> FALSE, result |-> "stdout"]
      [] x = "failed" -> [raised |-> FALSE, failed |-> TRUE, result |-> "stdout Error: stderr"]
      [] x = "sudo_password" ->
           [raised |-> FALSE, failed |-> TRUE, result |-> "sudo: a password is required"]
      [] x = "raised" ->
           [raised |-> FALSE, failed |-> TRUE, result |-> "Local execution exception: OSError"]

\* task.run(task=send_command, command=cmd)[0]: nothing around it catches
send_command(x) ==
    CASE x = "ok" -> [raised |-> FALSE, failed |-> FALSE, result |-> "stdout"]
      [] x = "failed" -> [raised |-> FALSE, failed |-> TRUE, result |-> "stdout"]
      [] x = "sudo_password" ->
           [raised |-> FALSE, failed |-> TRUE, result |-> "sudo: a password is required"]
      [] x = "raised" -> [raised |-> TRUE, failed |-> FALSE, result |-> "NornirSubTaskError"]

\* command.py:10-45  run_command (utils/linux.py:19-48 _run_command is the same)
run_command(plat, x) ==
    LET result == IF plat = "linux_local" THEN run_local_subprocess(x) ELSE send_command(x)
    IN IF result.raised
       THEN [called |-> TRUE, raised |-> TRUE, failed |-> FALSE, result |-> result.result]
       ELSE IF result.failed /\ result.result = "sudo: a password is required"
            THEN [called |-> TRUE, raised |-> FALSE, failed |-> TRUE,
                  result |-> "Sudo privileges missing"]
            ELSE [called |-> TRUE, raised |-> FALSE, failed |-> result.failed,
                  result |-> result.result]

\* the body ran command result c directly (outside any sub-step)
Ran(c, r) == [r EXCEPT !.cmd = c]

\* task.host.get("app_config")
AppConfigs == {"ok", "missing"}

check_internet_access(cmd_result) ==
    Ran(cmd_result,
        IF cmd_result.raised THEN TaskRaise(<< >>, << >>, cmd_result.result)
        ELSE IF cmd_result.failed
             THEN TaskOut(<< >>, << >>, Result(TRUE, "FAILED", <<"Unreachable: 1.1.1.1">>))
             ELSE TaskOut(<< >>, << >>, Result(FALSE, "OK", <<"Connectivity verified">>)))

gather_system_facts_steps == <<"_get_os_release", "_get_cpu_arch">>

gather_system_facts(o) ==
    LET distro_id == Lower(o[1].data)
    IN FailFast(gather_system_facts_steps, o, 1,
                IF distro_id \notin {"ubuntu", "debian"}
                THEN Result(TRUE, "FAILED", <<"Unsupported OS", distro_id>>)
                ELSE Result(FALSE, "OK", <<"OS Verified", distro_id>>))

set_hostname_and_hosts_steps ==
    <<"_ensure_hostname", "_ensure_localhost_entry", "_ensure_resolution_entry">>

set_hostname_and_hosts(o) ==
    LET is_changed == \/ o[1].message = <<"Hostname changed">>
                      \/ o[2].message = <<"Localhost entry updated">>
                      \/ o[3].message = <<"Resolution entry set">>
    IN FailFast(set_hostname_and_hosts_steps, o, 1,
                Result(FALSE, IF is_changed THEN "CHANGED" ELSE "OK",
                       <<"Hostname set & /etc/hosts verified">>))

ensure_azure_cli_steps == <<"_add_azure_cli_repo", "_install_package">>

\* which: the result of the "which az" command of command_exists(task, "az")
ensure_azure_cli(which, o) ==
    Ran(which,
        IF which.raised THEN TaskRaise(<< >>, << >>, which.result)
        ELSE IF ~which.failed
             THEN TaskOut(<< >>, << >>, Result(FALSE, "OK", <<"Azure CLI already installed">>))
             ELSE FailFast(ensure_azure_cli_steps, o, 1,
                           Result(FALSE, "CHANGED", <<"Azure CLI installed & configured">>)))

_check_environment(plat, groups) ==
    IF plat # "linux_local" /\ "local_machine" \notin groups
    THEN SubTaskResult(TRUE, "Remote Target (Skipping logic)", "SKIP")
    ELSE SubTaskResult(TRUE, "Local Execution Confirmed", "None")

ensure_azure_login_steps ==
    <<"_check_cli_installed", "_check_active_session", "_verify_subscription",
      "_check_extensions", "_check_providers">>

ensure_azure_login(plat, groups, o) ==
    LET step_env == automated_substep("_check_environment",
                        [raised |-> FALSE, val |-> _check_environment(plat, groups)])
        c == <<"_check_environment">>
    IN IF ~step_env.success THEN TaskOut(c, <<step_env>>, fail(step_env))
       ELSE IF step_env.data = "SKIP"
            THEN TaskOut(c, <<step_env>>, Result(FALSE, "OK", <<"Skipped (Remote Host)">>))
            ELSE After(c, <<step_env>>,
                       FailFast(ensure_azure_login_steps, o, 1,
                                Result(FALSE, "OK", <<"Ready">>)))

install_arc_agent_steps == <<"_check_arc_status", "_connect_cluster">>

install_arc_agent(cfg, o) ==
    IF cfg = "missing" THEN TaskRaise(<< >>, << >>, "'NoneType' object is not subscriptable")
    ELSE LET s1 == o[1]
         IN IF ~s1.success
            THEN TaskOut(<<"_check_arc_status">>, <<s1>>, fail(s1))
            ELSE IF Truthy(s1.data)
                 THEN TaskOut(<<"_check_arc_status">>, <<s1>>,
                              Result(FALSE, "OK", s1.message))
                 ELSE FailFast(install_arc_agent_steps, o, 2,
                               Result(FALSE, "CHANGED", <<"Cluster projected to Azure Arc">>))

prepare_k8s_node_steps ==
    <<"_load_kernel_modules", "_configure_sysctl", "_disable_swap_runtime",
      "_disable_swap_fstab">>

prepare_k8s_node(cfg, o) ==
    IF cfg = "missing"
    THEN TaskOut(<< >>, << >>, Result(TRUE, "FAILED", <<"Missing K8s config">>))
    ELSE FailFast(prepare_k8s_node_steps, o, 1,
                  Result(FALSE, "CHANGED", <<"OS Prepared">>))

install_containerd_steps ==
    <<"_install_deps", "_setup_gpg", "_add_repo", "_install_containerd",
      "_configure_containerd", "_restart_service">>

install_containerd(o) ==
    FailFast(install_containerd_steps, o, 1,
             Result(FALSE, "CHANGED", <<"Containerd installed, configured & running">>))

install_kubernetes_tools_steps ==
    <<"_add_kubernetes_repo", "_install_packages", "_hold_packages", "_enable_service">>

install_kubernetes_tools(cfg, o) ==
    IF cfg = "missing" THEN TaskRaise(<< >>, << >>, "'NoneType' object is not subscriptable")
    ELSE FailFast(install_kubernetes_tools_steps, o, 1,
                  Result(FALSE, "CHANGED", <<"Kubernetes tools installed & held">>))

init_control_plane_steps ==
    <<"_check_initialization", "_create_kubeadm_config", "_run_kubeadm_init",
      "_fetch_kubeconfig_local", "_setup_user_kubeconfig", "_install_cni",
      "_untaint_node">>

init_control_plane(cfg, o) ==
    IF cfg = "missing" THEN TaskRaise(<< >>, << >>, "'NoneType' object is not subscriptable")
    ELSE LET step_check == o[1]
             is_initialized == Truthy(step_check.data)
             from == IF ~is_initialized THEN 2 ELSE 4
             rest == SubSeq(init_control_plane_steps, from, 7)
             final == IF ~is_initialized
                      THEN Result(FALSE, "CHANGED", <<"Cluster Initialized & Configured">>)
                      ELSE Result(FALSE, "OK", <<"Cluster Already Up">>)
         IN After(<<"_check_initialization">>, <<step_check>>,
                  FailFast(rest, SubSeq(o, from, 7), 1, final))

setup_fluxcd_steps == <<"_install_flux_cli", "_configure_ssh_key", "_bootstrap_flux">>

setup_fluxcd(cfg, enabled, o) ==
    IF cfg = "missing" THEN TaskRaise(<< >>, << >>, "'NoneType' object is not subscriptable")
    ELSE IF ~enabled
         THEN TaskOut(<< >>, << >>, Result(FALSE, "SKIPPED", <<"Flux disabled">>))
         ELSE FailFast(setup_fluxcd_steps, o, 1,
                       Result(FALSE, "CHANGED", <<"GitOps Pipeline Active">>))

\* task t is in the chain of one of h's groups for some goal of the registry
Registered(t, h) ==
    \E g \in DOMAIN TASK_REGISTRY, grp \in HostGroups(h) :
        \E i \in DOMAIN ChainOf(g, grp) : ChainOf(g, grp)[i] = t

\* What each sub-step returns on a host that already is in the state the task
\* establishes, every command succeeding: the return statement its body
\* reaches when its own checks find nothing to do, or its only successful one.
\* src/tasks/os_hostname_setup.py
os_hostname_setup_in_place(step) ==
    CASE step = "_ensure_hostname" -> {SubTaskResult(TRUE, "Hostname already set", "None")}
      [] step = "_ensure_localhost_entry" -> {SubTaskResult(TRUE, "Localhost entry present", "None")}
      [] step = "_ensure_resolution_entry" -> {SubTaskResult(TRUE, "Resolution entry correct", "None")}
      [] OTHER -> {}

\* src/tasks/k8s_node_preparation.py
k8s_node_preparation_in_place(step) ==
    CASE step = "_load_kernel_modules" -> {SubTaskResult(TRUE, "Modules loaded & persisted", "None")}
      [] step = "_configure_sysctl" -> {SubTaskResult(TRUE, "Applied sysctl parameters", "None")}
      [] step = "_disable_swap_runtime" -> {SubTaskResult(TRUE, "Swap already disabled", "None")}
      [] step = "_disable_swap_fstab" -> {SubTaskResult(TRUE, "/etc/fstab already configured", "None")}
      [] OTHER -> {}

\* src/tasks/cri_containerd_setup.py
cri_containerd_setup_in_place(step) ==
    CASE step = "_install_deps" -> {SubTaskResult(TRUE, "Dependencies installed", "None")}
      [] step = "_setup_gpg" -> {SubTaskResult(TRUE, "GPG Key already present", "None")}
      [] step = "_add_repo" -> {SubTaskResult(TRUE, "Repo up-to-date", "None")}
      [] step = "_install_containerd" -> {SubTaskResult(TRUE, "Containerd installed", "None")}
      [] step = "_configure_containerd" -> {SubTaskResult(TRUE, "Config already correct", "None")}
      [] step = "_restart_service" -> {SubTaskResult(TRUE, "Service restarted & enabled", "None")}
      [] OTHER -> {}

\* src/tasks/k8s_tools_installation.py
k8s_tools_installation_in_place(step) ==
    CASE step = "_add_kubernetes_repo" -> {SubTaskResult(TRUE, "APT repository configured", "None")}
      [] step = "_install_packages" -> {SubTaskResult(TRUE, "Packages installed", "None")}
      [] step = "_hold_packages" -> {SubTaskResult(TRUE, "Version lock enabled (held)", "None")}
      [] step = "_enable_service" -> {SubTaskResult(TRUE, "Kubelet enabled", "None")}
      [] OTHER -> {}

AlreadyInPlace(step) ==
    CHOOSE r \in os_hostname_setup_in_place(step) \cup k8s_node_preparation_in_place(step)
                 \cup cri_containerd_setup_in_place(step)
                 \cup k8s_tools_installation_in_place(step) : TRUE

DesiredOuts(steps) == [i \in DOMAIN steps |-> AlreadyInPlace(steps[i])]

\* the engine receives what the automated_step wrapper returns; d tells that
\* the host was already in the state the task establishes
Invoke(t, h, plat, r, d) ==
    LET w == automated_step(r)
    IN inv' = [done |-> TRUE, task |-> t, host |-> h, plat |-> plat,
               calls |-> w.calls, subs |-> w.subs, ret |-> w.ret,
               exc |-> IF r.raised THEN {r.ret.message[1]} ELSE {},
               escaped |-> w.raised, desired |-> d,
               cmd |-> r.cmd]

Invoked(t, h, plat, r) == Invoke(t, h, plat, r, FALSE)

InitTask ==
    /\ inv = NoInv
    /\ EngineIdle /\ FileIdle

CheckInternetAccess ==
    /\ ~inv.done
    /\ \E h \in Hosts, plat \in Platforms :
         /\ Registered("check_internet_access", h)
         /\ \E ping \in CmdOutcomes(plat, FALSE) :
              Invoked("check_internet_access", h, plat,
                      check_internet_access(run_command(plat, ping)))
    /\ UNCHANGED <<engineVars, fileVars>>

GatherSystemFacts ==
    /\ ~inv.done
    /\ \E h \in Hosts, plat \in Platforms :
         /\ Registered("gather_system_facts", h)
         /\ \E o \in SubOuts(gather_system_facts_steps, plat) :
              Invoked("gather_system_facts", h, plat, gather_system_facts(o))
    /\ UNCHANGED <<engineVars, fileVars>>

SetHostnameAndHosts ==
    /\ ~inv.done
    /\ \E h \in Hosts, plat \in Platforms :
         /\ Registered("set_hostname_and_hosts", h)
         /\ \E o \in SubOuts(set_hostname_and_hosts_steps, plat), d \in BOOLEAN :
              /\ d => o = DesiredOuts(set_hostname_and_hosts_steps)
              /\ Invoke("set_hostname_and_hosts", h, plat, set_hostname_and_hosts(o), d)
    /\ UNCHANGED <<engineVars, fileVars>>

EnsureAzureCli ==
    /\ ~inv.done
    /\ \E h \in Hosts, plat \in Platforms :
         /\ Registered("ensure_azure_cli", h)
         /\ \E which \in CmdOutcomes(plat, FALSE), o \in SubOuts(ensure_azure_cli_steps, plat) :
              Invoked("ensure_azure_cli", h, plat,
                      ensure_azure_cli(run_command(plat, which), o))
    /\ UNCHANGED <<engineVars, fileVars>>

EnsureAzureLogin ==
    /\ ~inv.done
    /\ \E h \in Hosts, plat \in Platforms :
         /\ Registered("ensure_azure_login", h)
         /\ \E o \in SubOuts(ensure_azure_login_steps, plat) :
              Invoked("ensure_azure_login", h, plat,
                      ensure_azure_login(plat, HostGroups(h), o))
    /\ UNCHANGED <<engineVars, fileVars>>

InstallArcAgent ==
    /\ ~inv.done
    /\ \E h \in Hosts, plat \in Platforms, cfg \in AppConfigs :
         /\ Registered("install_arc_agent", h)
         /\ \E o \in SubOuts(install_arc_agent_steps, plat) :
              Invoked("install_arc_agent", h, plat, install_arc_agent(cfg, o))
    /\ UNCHANGED <<engineVars, fileVars>>

PrepareK8sNode ==
    /\ ~inv.done
    /\ \E h \in Hosts, plat \in Platforms, cfg \in AppConfigs :
         /\ Registered("prepare_k8s_node", h)
         /\ \E o \in SubOuts(prepare_k8s_node_steps, plat), d \in BOOLEAN :
              /\ d => (cfg = "ok" /\ o = DesiredOuts(prepare_k8s_node_steps))
              /\ Invoke("prepare_k8s_node", h, plat, prepare_k8s_node(cfg, o), d)
    /\ UNCHANGED <<engineVars, fileVars>>

InstallContainerd ==
    /\ ~inv.done
    /\ \E h \in Hosts, plat \in Platforms :
         /\ Registered("install_containerd", h)
         /\ \E o \in SubOuts(install_containerd_steps, plat), d \in BOOLEAN :
              /\ d => o = DesiredOuts(install_containerd_steps)
              /\ Invoke("install_containerd", h, plat, install_containerd(o), d)
    /\ UNCHANGED <<engineVars, fileVars>>

InstallKubernetesTools ==
    /\ ~inv.done
    /\ \E h \in Hosts, plat \in Platforms, cfg \in AppConfigs :
         /\ Registered("install_kubernetes_tools", h)
         /\ \E o \in SubOuts(install_kubernetes_tools_steps, plat), d \in BOOLEAN :
              /\ d => (cfg = "ok" /\ o = DesiredOuts(install_kubernetes_tools_steps))
              /\ Invoke("install_kubernetes_tools", h, plat,
                        install_kubernetes_tools(cfg, o), d)
    /\ UNCHANGED <<engineVars, fileVars>>

InitControlPlane ==
    /\ ~inv.done
    /\ \E h \in Hosts, plat \in Platforms, cfg \in AppConfigs :
         /\ Registered("init_control_plane", h)
         /\ \E o \in SubOuts(init_control_plane_steps, plat) :
              Invoked("init_control_plane", h, plat, init_control_plane(cfg, o))
    /\ UNCHANGED <<engineVars, fileVars>>

SetupFluxcd ==
    /\ ~inv.done
    /\ \E h \in Hosts, plat \in Platforms, cfg \in AppConfigs, enabled \in BOOLEAN :
         /\ Registered("setup_fluxcd", h)
         /\ \E o \in SubOuts(setup_fluxcd_steps, plat) :
              Invoked("setup_fluxcd", h, plat, setup_fluxcd(cfg, enabled, o))
    /\ UNCHANGED <<engineVars, fileVars>>

NextTask ==
    \/ CheckInternetAccess
    \/ GatherSystemFacts
    \/ SetHostnameAndHosts
    \/ EnsureAzureCli
    \/ EnsureAzureLogin
    \/ InstallArcAgent
    \/ PrepareK8sNode
    \/ InstallContainerd
    \/ InstallKubernetesTools
    \/ InitControlPlane
    \/ SetupFluxcd

SpecTask == InitTask /\ [][NextTask]_vars

(***************************************************************************)
(* Claims about the registered tasks                                       *)
(***************************************************************************)
\* C6: Fail-fast sub-step chain: in every registered task, when a sub-step
\* returned success=false, it is the last sub-step the task invoked, and the
\* task's result has status FAILED and carries that sub-step's message.
C6_FailFastChain ==
    inv.done =>
        \A i \in DOMAIN inv.subs :
            ~inv.subs[i].success =>
                /\ i = Len(inv.subs)
                /\ inv.ret.status = "FAILED"
                /\ inv.ret.message = inv.subs[i].message

\* C10: Result invariant: for every result a registered task returns to the
\* engine through automated_step (built by the body, by fail() or by the
\* exception handler) the outer failed flag is true exactly when the
\* StandardResult status is FAILED.
C10_ResultInvariant ==
    inv.done => (inv.ret.failed <=> inv.ret.status = "FAILED")

\* C10 witness: a task returned the result fail() built from a failed sub-step.
C10_Witness ==
    /\ inv.done
    /\ Len(inv.subs) > 0
    /\ ~inv.subs[Len(inv.subs)].success
    /\ inv.ret.failed
    /\ inv.ret.status = "FAILED"
    /\ inv.ret.message = inv.subs[Len(inv.subs)].message

\* sub-step number i of the invocation raised inside its body
SubRaised(i) == inv.subs[i].message[1] = "Exception in"

C13_RunCommandNeverRaises ==
    (inv.done /\ inv.cmd.called) => ~inv.cmd.raised

(***************************************************************************)
(* Claims about ensure_line_in_file                                        *)
(***************************************************************************)
\* C15: ensure_line_in_file is idempotent: a call with the same path, line and
\* pattern directly after a successful first call (no command of the second
\* call failing) returns changed=false and leaves the file's content and the
\* set of backups as they were.
C15_EnsureLineIdempotent ==
    (last.called /\ last.rep.is /\ last.rep.ok /\ last.clean) =>
        /\ last.ret.kind = "result" /\ ~last.ret.failed /\ ~last.ret.changed
        /\ files[last.path] = last.pre
        /\ DOMAIN backups = last.preb

\* the lines the file is to hold after the call: with a pattern the first
\* matching line replaced (the line appended when none matches), without a
\* pattern the line appended unless some line equals it
Selected(lines, line, rx) ==
    LET hits == {i \in DOMAIN lines : Search(rx, lines[i])}
        first == CHOOSE i \in hits : \A j \in hits : i <= j
    IN IF rx # None
       THEN (IF hits = {} THEN Append(lines, line)
             ELSE [i \in DOMAIN lines |-> IF i = first THEN line ELSE lines[i]])
       ELSE (IF \E i \in DOMAIN lines : lines[i] = line THEN lines
             ELSE Append(lines, line))

\* C16: ensure_line_in_file line selection: after a call in which no command
\* failed, the file holds its former lines with exactly the first line that
\* matches the pattern replaced by the new line (appended when none matches);
\* without a pattern the line is appended only if no line equals it.
C16_LineSelection ==
    (last.called /\ last.clean) =>
        LET before == Splitlines(IF last.pre = Absent THEN "" ELSE last.pre)
        IN /\ files[last.path] # Absent \/ Selected(before, last.line, last.rx) = before
           /\ files[last.path] # Absent =>
                 Splitlines(files[last.path]) = Selected(before, last.line, last.rx)

\* C25: Status reflects mutation: a task invoked on a host that already is in
\* the state the task establishes, all its commands succeeding, returns OK and
\* never CHANGED (set_hostname_and_hosts, prepare_k8s_node, install_containerd,
\* install_kubernetes_tools).
C25_StatusReflectsMutation ==
    (inv.done /\ inv.desired) => (~inv.ret.failed /\ inv.ret.status = "OK")

(***************************************************************************)
(* setup_fluxcd on one host's file system (src/tasks/gitops_flux_setup.py). *)
(* The host's files are the private key at remote_key_path and the          *)
(* bootstrap marker; the task is run up to MaxRuns times on the same host.  *)
(***************************************************************************)
\* settings.py:33  remote_key_path = "/home/calcifer/.ssh/flux_identity"
KeyPath == <<"/", "home", "/", "calcifer", "/", ".ssh", "/", "flux_identity">>

\* gitops_flux_setup.py:69  marker_file = "/var/lib/flux_bootstrapped"
MarkerPath == <<"/", "var", "/", "lib", "/", "flux_bootstrapped">>

FluxPaths == {KeyPath, MarkerPath}

\* local_file.read_text().strip() of the key file on the control machine
KeyContent == "KEY"

MaxRuns == 2

\* state of the local key file (gitops_flux_setup.py:40-47)
LocalKeys == {"ok", "missing", "unreadable"}

\* The commands of the task's sub-steps; f = <<command, outcome>> names the one
\* that does not succeed in a run (see Faults).
FluxCmds == {"download", "chmod_script", "install", "rm_script", "mkdir",
             "test_marker", "bootstrap", "rm_key"}

FluxFaults(plat) ==
    {<<"none", "ok">>} \cup {<<c, "failed">> : c \in FluxCmds \cup {"which"}}
    \cup (IF plat = "linux_local" THEN {}
          ELSE {<<c, "raised">> : c \in FluxCmds \cup {"which"}})

\* the part of the host a run changes
FluxEnv(fs, bk, rt, lt, id) ==
    [files |-> fs, backups |-> bk, remoteTmp |-> rt, localTmp |-> lt, uuid |-> id]

SubReturned(e, r) == [raised |-> FALSE, val |-> r, env |-> e]
SubRaisedIn(e) ==
    [raised |-> TRUE, val |-> SubTaskResult(FALSE, "NornirSubTaskError", "None"), env |-> e]

\* the element of a one-element set; binds a sub-step's result once it is computed
Only(S) == CHOOSE x \in S : TRUE

\* write_file(task, p, c) of module imp called from a sub-step on environment e
HostWrite(e, plat, imp, p, c, f) ==
    Only({[ret |-> s.ret,
           env |-> FluxEnv(s.files, s.backups, s.remoteTmp, s.localTmp, e.uuid + 1)] :
          s \in {WriteFile([files |-> e.files, backups |-> e.backups,
                            remoteTmp |-> e.remoteTmp, localTmp |-> e.localTmp,
                            done |-> FALSE, ret |-> Ret("none", FALSE, FALSE, ""),
                            trace |-> << >>, bkp |-> {}, now |-> 0, id |-> e.uuid,
                            impl |-> imp, plat |-> plat,
                            path |-> p, content |-> c, f |-> f])}})

\* gitops_flux_setup.py:7  from tasks import write_file
FluxWrite(e, plat, p, c, f) == HostWrite(e, plat, "tasks.utils.files", p, c, f)

\* gitops_flux_setup.py:12-34; cli: the flux binary is on the host's PATH
install_flux_cli(e, cli, f) ==
    IF Oc(f, "which") = "raised" THEN SubRaisedIn(e)
    ELSE IF cli /\ Oc(f, "which") = "ok"
         THEN SubReturned(e, SubTaskResult(TRUE, "Flux CLI already installed", "None"))
    ELSE IF Oc(f, "download") = "raised" THEN SubRaisedIn(e)
    ELSE IF Oc(f, "download") = "failed"
         THEN SubReturned(e, SubTaskResult(FALSE, "Failed to download Flux CLI install script", "None"))
    ELSE IF \E c \in {"chmod_script", "install", "rm_script"} : Oc(f, c) = "raised"
         THEN SubRaisedIn(e)
    ELSE IF Oc(f, "install") = "failed"
         THEN SubReturned(e, SubTaskResult(FALSE, "Failed to install Flux CLI", "None"))
    ELSE SubReturned(e, SubTaskResult(TRUE, "Flux CLI installed", "None"))

\* gitops_flux_setup.py:37-61; fk: what happens to write_file's own commands
configure_ssh_key(e, plat, local, f, fk) ==
    IF local = "missing"
    THEN SubReturned(e, SubTaskResult(FALSE, "Local key not found", "None"))
    ELSE IF local = "unreadable"
    THEN SubReturned(e, SubTaskResult(FALSE, "Failed to read local key", "None"))
    ELSE IF Oc(f, "mkdir") = "raised" THEN SubRaisedIn(e)
    ELSE Only({IF w.ret.kind = "raised" THEN SubRaisedIn(w.env)
               ELSE IF w.ret.failed
               THEN SubReturned(w.env, SubTaskResult(FALSE, "Failed to write remote key file", "None"))
               ELSE SubReturned(w.env, SubTaskResult(TRUE, "SSH Key configured", "None")) :
               w \in {FluxWrite(e, plat, KeyPath, KeyContent, fk)}})

\* run_command(task, f"rm -f {key_path}", sudo=True), result not inspected
\* (gitops_flux_setup.py:97)
RmKey(e, f) ==
    IF Oc(f, "rm_key") = "ok" THEN [e EXCEPT !.files[KeyPath] = Absent] ELSE e

\* gitops_flux_setup.py:64-104; fm: what happens to the marker's write_file
bootstrap_flux(e, plat, f, fm) ==
    IF Oc(f, "test_marker") = "raised" THEN SubRaisedIn(e)
    ELSE IF e.files[MarkerPath] # Absent /\ Oc(f, "test_marker") = "ok"
         THEN SubReturned(e, SubTaskResult(TRUE, "Bootstrap already completed", "None"))
    ELSE IF Oc(f, "bootstrap") = "raised" THEN SubRaisedIn(e)
    ELSE IF Oc(f, "rm_key") = "raised" THEN SubRaisedIn(e)
    ELSE IF Oc(f, "bootstrap") = "failed"
         THEN SubReturned(RmKey(e, f), SubTaskResult(FALSE, "Bootstrap failed", "None"))
         ELSE Only({IF w.ret.kind = "raised" THEN SubRaisedIn(w.env)
                    ELSE SubReturned(w.env,
                            SubTaskResult(TRUE, "Flux Bootstrapped (Key cleaned up)", "None")) :
                    w \in {FluxWrite(RmKey(e, f), plat, MarkerPath, "bootstrapped", fm)}})

\* gitops_flux_setup.py:109-131, with the sub-steps acting on the host
setup_fluxcd_on(e, plat, enabled, cli, local, f, fk, fm) ==
    IF ~enabled
    THEN [env |-> e, out |-> setup_fluxcd("ok", FALSE, << >>)]
    ELSE Only({
           LET s1 == automated_substep("_install_flux_cli", b1)
           IN IF ~s1.success
              THEN [env |-> b1.env, out |-> setup_fluxcd("ok", TRUE, <<s1, s1, s1>>)]
              ELSE Only({
                LET s2 == automated_substep("_configure_ssh_key", b2)
                IN IF ~s2.success
                   THEN [env |-> b2.env, out |-> setup_fluxcd("ok", TRUE, <<s1, s2, s2>>)]
                   ELSE Only({
                     LET s3 == automated_substep("_bootstrap_flux", b3)
                     IN [env |-> b3.env, out |-> setup_fluxcd("ok", TRUE, <<s1, s2, s3>>)] :
                     b3 \in {bootstrap_flux(b2.env, plat, f, fm)}}) :
                b2 \in {configure_ssh_key(b1.env, plat, local, f, fk)}}) :
           b1 \in {install_flux_cli(e, cli, f)}})

NoFluxRun == [done |-> FALSE, runs |-> 0, enabled |-> FALSE, markerBefore |-> FALSE,
              clean |-> FALSE,
              calls |-> << >>, subs |-> << >>,
              ret |-> [failed |-> FALSE, status |-> None, message |-> << >>]]

InitFlux ==
    /\ platform \in Platforms
    /\ impl = "tasks.utils.files"
    /\ files = [p \in FluxPaths |-> Absent]
    /\ backups = << >>
    /\ remoteTmp = {}
    /\ localTmp = {}
    /\ clock = 0
    /\ nextUuid = 0
    /\ last = None
    /\ inv = NoFluxRun
    /\ EngineIdle

\* One invocation of setup_fluxcd for the host.
SetupFluxcdRun(enabled, cli, local, f, fk, fm) ==
    /\ inv.runs < MaxRuns
    /\ \E r \in {setup_fluxcd_on(FluxEnv(files, backups, remoteTmp, localTmp, nextUuid),
                                  platform, enabled, cli, local, f, fk, fm)} :
       \E w \in {automated_step(r.out)} :
          /\ files' = r.env.files
          /\ backups' = r.env.backups
          /\ remoteTmp' = r.env.remoteTmp
          /\ localTmp' = r.env.localTmp
          /\ nextUuid' = r.env.uuid
          /\ inv' = [done |-> TRUE, runs |-> inv.runs + 1, enabled |-> enabled,
                     markerBefore |-> files[MarkerPath] # Absent,
                     clean |-> (f = <<"none", "ok">> /\ fk = <<"none", "ok">>
                                /\ fm = <<"none", "ok">>),
                     calls |-> w.calls, subs |-> w.subs, ret |-> w.ret]
    /\ UNCHANGED <<platform, impl, clock, last>>
    /\ UNCHANGED engineVars

NextFlux ==
    \E enabled, cli \in BOOLEAN, local \in LocalKeys, f \in FluxFaults(platform),
       fk \in Faults(platform), fm \in {<<"none", "ok">>, <<"mv", "failed">>} :
        SetupFluxcdRun(enabled, cli, local, f, fk, fm)

SpecFlux == InitFlux /\ [][NextFlux]_vars

\* C26: Flux private key cleanup: whenever setup_fluxcd returns a result that
\* is not failed with Flux enabled, the private key file at remote_key_path is
\* absent from the host, on the first run and on every later run.
C26_FluxKeyCleanup ==
    (inv.done /\ inv.enabled /\ ~inv.ret.failed) => files[KeyPath] = Absent

(***************************************************************************)
(* init_control_plane on one host's file system                            *)
(* (src/tasks/k8s_control_plane_init.py).  The host's files are            *)
(* /etc/kubernetes/admin.conf and the temporary kubeadm config; the task   *)
(* is run up to MaxRuns times on the same host.                            *)
(***************************************************************************)
AdminConf == <<"/", "etc", "/", "kubernetes", "/", "admin.conf">>
KubeadmConfig == <<"/", "tmp", "/", "kubeadm-config.yaml">>
InitPaths == {AdminConf, KubeadmConfig}

\* The commands of the first three sub-steps; f = <<command, outcome>> names
\* the one that does not succeed in a run (see Faults).
InitFaults(plat) ==
    {<<"none", "ok">>} \cup {<<c, "failed">> : c \in {"kubeadm_init", "rm_config"}}
    \cup (IF plat = "linux_local" THEN {}
          ELSE {<<c, "raised">> : c \in {"probe_admin", "kubeadm_init", "rm_config"}})

\* k8s_control_plane_init.py:19-27
check_initialization(e, f) ==
    IF Oc(f, "probe_admin") = "raised" THEN SubRaisedIn(e)
    ELSE IF RemoteFileExists(e.files, AdminConf)
         THEN SubReturned(e, SubTaskResult(TRUE, "Cluster already initialized", "True"))
         ELSE SubReturned(e, SubTaskResult(TRUE, "Cluster not initialized", "False"))

\* k8s_control_plane_init.py:30-54; fk: what happens to write_file's own commands
create_kubeadm_config(e, plat, fk) ==
    Only({IF w.ret.kind = "raised" THEN SubRaisedIn(w.env)
          ELSE IF w.ret.failed
          THEN SubReturned(w.env, SubTaskResult(FALSE, "Failed to write kubeadm-config.yaml", "None"))
          ELSE SubReturned(w.env, SubTaskResult(TRUE, "Config created", "None")) :
          w \in {HostWrite(e, plat, "utils.linux", KubeadmConfig, "config_content", fk)}})

\* linux.py:228-231  remove_file: rm -f through the command dispatcher
remove_file(e, p, oc) ==
    IF oc = "ok" THEN [e EXCEPT !.files[p] = Absent] ELSE e

\* k8s_control_plane_init.py:57-68; a successful kubeadm init leaves admin.conf
run_kubeadm_init(e, f) ==
    IF Oc(f, "kubeadm_init") = "raised" THEN SubRaisedIn(e)
    ELSE LET e1 == IF Oc(f, "kubeadm_init") = "ok"
                   THEN [e EXCEPT !.files[AdminConf] = "admin_conf"] ELSE e
         IN IF Oc(f, "rm_config") = "raised" THEN SubRaisedIn(e1)
            ELSE LET e2 == remove_file(e1, KubeadmConfig, Oc(f, "rm_config"))
                 IN IF Oc(f, "kubeadm_init") = "failed"
                    THEN SubReturned(e2, SubTaskResult(FALSE, "Init failed", "None"))
                    ELSE SubReturned(e2, SubTaskResult(TRUE, "Control Plane Initialized", "None"))

\* the sub-steps after the initialisation (k8s_control_plane_init.py:199-213):
\* all succeed, or one of them returns one of its failures
RestSteps == SubSeq(init_control_plane_steps, 4, 7)

RestOuts ==
    {o \in SubOuts(RestSteps, "linux_local") :
        Cardinality({k \in DOMAIN o : ~o[k].success}) <= 1}

\* k8s_control_plane_init.py:171-218, with the first sub-steps acting on the host
init_control_plane_on(e, plat, f, fk, rest) ==
    Only({
      LET s1 == automated_substep("_check_initialization", b1)
      IN IF Truthy(s1.data)
         THEN [env |-> b1.env, out |-> init_control_plane("ok", <<s1, s1, s1>> \o rest)]
         ELSE Only({
           LET s2 == automated_substep("_create_kubeadm_config", b2)
           IN IF ~s2.success
              THEN [env |-> b2.env, out |-> init_control_plane("ok", <<s1, s2, s2>> \o rest)]
              ELSE Only({
                LET s3 == automated_substep("_run_kubeadm_init", b3)
                IN [env |-> b3.env, out |-> init_control_plane("ok", <<s1, s2, s3>> \o rest)] :
                b3 \in {run_kubeadm_init(b2.env, f)}}) :
           b2 \in {create_kubeadm_config(b1.env, plat, fk)}}) :
      b1 \in {check_initialization(e, f)}})

NoInitRun == [done |-> FALSE, runs |-> 0, adminBefore |-> FALSE, clean |-> FALSE,
              calls |-> << >>, subs |-> << >>,
              ret |-> [failed |-> FALSE, status |-> None, message |-> << >>]]

InitControlPlaneHost ==
    /\ platform \in Platforms
    /\ impl = "utils.linux"
    /\ files \in {[p \in InitPaths |-> Absent],
                  [p \in InitPaths |-> IF p = AdminConf THEN "admin_conf" ELSE Absent]}
    /\ backups = << >>
    /\ remoteTmp = {}
    /\ localTmp = {}
    /\ clock = 0
    /\ nextUuid = 0
    /\ last = None
    /\ inv = NoInitRun
    /\ EngineIdle

\* One invocation of init_control_plane for the host.
InitControlPlaneRun(f, fk, rest) ==
    /\ inv.runs < MaxRuns
    /\ \E r \in {init_control_plane_on(FluxEnv(files, backups, remoteTmp, localTmp, nextUuid),
                                        platform, f, fk, rest)} :
       \E w \in {automated_step(r.out)} :
          /\ files' = r.env.files
          /\ backups' = r.env.backups
          /\ remoteTmp' = r.env.remoteTmp
          /\ localTmp' = r.env.localTmp
          /\ nextUuid' = r.env.uuid
          /\ inv' = [done |-> TRUE, runs |-> inv.runs + 1,
                     adminBefore |-> RemoteFileExists(files, AdminConf),
                     clean |-> (f = <<"none", "ok">> /\ fk = <<"none", "ok">>),
                     calls |-> w.calls, subs |-> w.subs, ret |-> w.ret]
    /\ UNCHANGED <<platform, impl, clock, last>>
    /\ UNCHANGED engineVars

NextInit ==
    \E f \in InitFaults(platform), fk \in Faults(platform), rest \in RestOuts :
        InitControlPlaneRun(f, fk, rest)

SpecInit == InitControlPlaneHost /\ [][NextInit]_vars

Called(step) == \E k \in DOMAIN inv.calls : inv.calls[k] = step

\* C30: Control-plane initialisation is idempotent: kubeadm init is executed
\* only when /etc/kubernetes/admin.conf was absent at the start of the task;
\* on a host where it was present neither the kubeadm config write nor kubeadm
\* init is executed and the task returns OK when its remaining sub-steps
\* succeed; and whenever kubeadm init was executed the temporary kubeadm config
\* file is gone afterwards.
C30_InitIdempotent ==
    inv.done =>
        /\ Called("_run_kubeadm_init") => ~inv.adminBefore
        /\ inv.adminBefore =>
              /\ ~Called("_create_kubeadm_config")
              /\ (\A k \in DOMAIN inv.subs : inv.subs[k].success)
                    => (~inv.ret.failed /\ inv.ret.status = "OK")
        /\ Called("_run_kubeadm_init") => files[KubeadmConfig] = Absent

====
